---- MODULE Spec2Model ----
(***************************************************************************)
(* Model of the TTC delay dashboard: the DataLoader (js/dataLoader.js) and *)
(* the filter engine of TTCVisualizationApp (js/app.js).                   *)
(*                                                                         *)
(* Conventions.  A JavaScript string is a sequence of one-character        *)
(* strings.  A JavaScript number is an integer counting thousandths        *)
(* (8.5 is 8500).  Other JavaScript values are tagged records: Null,       *)
(* Undefined, NaN.  A call that can throw returns a completion record:     *)
(* [kind |-> "value", value |-> v] or [kind |-> "throw"].                  *)
(***************************************************************************)
EXTENDS Integers, Sequences, FiniteSets, TLC

VARIABLES
    csvText,      \* parseCSV: the text handed to the parser
    csvResult,    \* parseCSV: the completion of the call (Pending before it)
    files,        \* the server: resource name -> body served, or a failure
    cache,        \* DataLoader.cache: key -> entry or NoEntry
    now,          \* Date.now(), in milliseconds
    lastLoad,     \* the last public load operation and its completion
    state,        \* TTCVisualizationApp.state
    searchTimeout, \* TTCVisualizationApp.searchTimeout: is the timer pending
    mapVisualizer, \* the MapVisualizer: its fields and the layers on the map
    app            \* TTCVisualizationApp outside state, and what the page shows

vars == <<csvText, csvResult, files, cache, now, lastLoad, state, searchTimeout,
          mapVisualizer, app>>

(***************************************************************************)
(* Bounds of the model                                                     *)
(***************************************************************************)
MaxLen == 5        \* longest text enumerated for parseCSV
MaxRows == 2       \* most data rows of a generated CSV payload
MaxTicks == 1      \* how many times the clock advances
MaxCoords == 2     \* longest coordinate list of a generated geometry
MaxRoutes == 3     \* longest state.routes enumerated for filterRoutes
MaxQuery == 2      \* longest search query enumerated
MaxDate == 3       \* latest instant of a generated record date
DayLength == 2     \* instants of one calendar day
MaxUntracked == 2  \* most lines left on the map without an entry of activeLayers

(***************************************************************************)
(* JavaScript values                                                       *)
(***************************************************************************)
Null == [t |-> "null"]
Undefined == [t |-> "undefined"]
NaN == [t |-> "nan"]
Num(n) == [t |-> "num", v |-> n]
Str(s) == [t |-> "str", s |-> s]

Pending == [kind |-> "pending"]
Throw == [kind |-> "throw"]
Value(v) == [kind |-> "value", value |-> v]

LF == "\n"
Comma == ","
WhiteSpace == {" ", "\t", "\r", LF}

\* Array.prototype.map
RECURSIVE MapSeq(_, _)
MapSeq(F(_), s) ==
    IF s = <<>> THEN <<>> ELSE <<F(Head(s))>> \o MapSeq(F, Tail(s))

\* Array.prototype.filter: the elements that pass, in their original order
RECURSIVE FilterSeq(_, _)
FilterSeq(P(_), s) ==
    IF s = <<>> THEN <<>>
    ELSE (IF P(Head(s)) THEN <<Head(s)>> ELSE <<>>) \o FilterSeq(P, Tail(s))

\* String.prototype.trim: white space removed at both ends
RECURSIVE TrimLeft(_)
TrimLeft(s) ==
    IF s # <<>> /\ Head(s) \in WhiteSpace THEN TrimLeft(Tail(s)) ELSE s

RECURSIVE TrimRight(_)
TrimRight(s) ==
    IF s # <<>> /\ s[Len(s)] \in WhiteSpace
    THEN TrimRight(SubSeq(s, 1, Len(s) - 1))
    ELSE s

trim(s) == TrimRight(TrimLeft(s))

\* String.prototype.split(sep), sep one character: "" gives [""]
RECURSIVE SplitFrom(_, _, _)
SplitFrom(s, sep, cur) ==
    IF s = <<>> THEN <<cur>>
    ELSE IF Head(s) = sep THEN <<cur>> \o SplitFrom(Tail(s), sep, <<>>)
    ELSE SplitFrom(Tail(s), sep, Append(cur, Head(s)))

split(s, sep) == SplitFrom(s, sep, <<>>)

Range(s) == {s[i] : i \in DOMAIN s}

(***************************************************************************)
(* Text constants: column names and the literals of the code               *)
(***************************************************************************)
\* the column names of the CSV files and the keys of the JSON objects
K ==
    [Route |-> <<"R", "o", "u", "t", "e">>,
     route_long_name |-> <<"r", "o", "u", "t", "e", "_", "l", "o", "n", "g", "_", "n", "a", "m", "e">>,
     Avg_Delay_Min |-> <<"A", "v", "g", "_", "D", "e", "l", "a", "y", "_", "M", "i", "n">>,
     Delay_Count |-> <<"D", "e", "l", "a", "y", "_", "C", "o", "u", "n", "t">>,
     Total_Delay_Min |-> <<"T", "o", "t", "a", "l", "_", "D", "e", "l", "a", "y", "_", "M", "i", "n">>,
     On_Time_Percentage |-> <<"O", "n", "_", "T", "i", "m", "e", "_", "P", "e", "r", "c", "e", "n", "t", "a", "g", "e">>,
     Delay_Frequency |-> <<"D", "e", "l", "a", "y", "_", "F", "r", "e", "q", "u", "e", "n", "c", "y">>,
     location_id |-> <<"l", "o", "c", "a", "t", "i", "o", "n", "_", "i", "d">>,
     location_name |-> <<"l", "o", "c", "a", "t", "i", "o", "n", "_", "n", "a", "m", "e">>,
     total_delays |-> <<"t", "o", "t", "a", "l", "_", "d", "e", "l", "a", "y", "s">>,
     avg_delay_min |-> <<"a", "v", "g", "_", "d", "e", "l", "a", "y", "_", "m", "i", "n">>,
     latitude |-> <<"l", "a", "t", "i", "t", "u", "d", "e">>,
     longitude |-> <<"l", "o", "n", "g", "i", "t", "u", "d", "e">>,
     route_count |-> <<"r", "o", "u", "t", "e", "_", "c", "o", "u", "n", "t">>,
     peak_hours |-> <<"p", "e", "a", "k", "_", "h", "o", "u", "r", "s">>,
     avg_delay_minutes |-> <<"a", "v", "g", "_", "d", "e", "l", "a", "y", "_", "m", "i", "n", "u", "t", "e", "s">>,
     unique_routes |-> <<"u", "n", "i", "q", "u", "e", "_", "r", "o", "u", "t", "e", "s">>,
     coverage_percentage |-> <<"c", "o", "v", "e", "r", "a", "g", "e", "_", "p", "e", "r", "c", "e", "n", "t", "a", "g", "e">>,
     data_points |-> <<"d", "a", "t", "a", "_", "p", "o", "i", "n", "t", "s">>,
     time_period |-> <<"t", "i", "m", "e", "_", "p", "e", "r", "i", "o", "d">>,
     updated_at |-> <<"u", "p", "d", "a", "t", "e", "d", "_", "a", "t">>,
     peak_delay_hour |-> <<"p", "e", "a", "k", "_", "d", "e", "l", "a", "y", "_", "h", "o", "u", "r">>,
     most_delayed_route |-> <<"m", "o", "s", "t", "_", "d", "e", "l", "a", "y", "e", "d", "_", "r", "o", "u", "t", "e">>]

\* the string literals of the code
T ==
    [RoutePrefix |-> <<"R", "o", "u", "t", "e", " ">>,
     undefined |-> <<"u", "n", "d", "e", "f", "i", "n", "e", "d">>,
     null |-> <<"n", "u", "l", "l">>,
     true |-> <<"t", "r", "u", "e">>,
     false |-> <<"f", "a", "l", "s", "e">>,
     Last30Days |-> <<"L", "a", "s", "t", " ", "3", "0", " ", "d", "a", "y", "s">>,
     EightOClock |-> <<"0", "8", ":", "0", "0">>,
     Unknown |-> <<"U", "n", "k", "n", "o", "w", "n">>,
     CarltonRoute |-> <<"5", "0", "6", " ", "-", " ", "C", "a", "r", "l", "t", "o", "n", " ", "S", "t", "r", "e", "e", "t">>,
     highDelay |-> <<"h", "i", "g", "h", "D", "e", "l", "a", "y">>,
     lowDelay |-> <<"l", "o", "w", "D", "e", "l", "a", "y">>,
     id501 |-> <<"5", "0", "1">>,
     id504 |-> <<"5", "0", "4">>,
     id505 |-> <<"5", "0", "5">>,
     id506 |-> <<"5", "0", "6">>,
     id509 |-> <<"5", "0", "9">>,
     id510 |-> <<"5", "1", "0">>,
     Queen |-> <<"Q", "u", "e", "e", "n", " ", "S", "t", "r", "e", "e", "t">>,
     King |-> <<"K", "i", "n", "g", " ", "S", "t", "r", "e", "e", "t">>,
     Dundas |-> <<"D", "u", "n", "d", "a", "s", " ", "S", "t", "r", "e", "e", "t">>,
     Carlton |-> <<"C", "a", "r", "l", "t", "o", "n", " ", "S", "t", "r", "e", "e", "t">>,
     Harbourfront |-> <<"H", "a", "r", "b", "o", "u", "r", "f", "r", "o", "n", "t">>,
     Spadina |-> <<"S", "p", "a", "d", "i", "n", "a", " ", "A", "v", "e", "n", "u", "e">>]

(***************************************************************************)
(* Numbers and coercions of the language                                   *)
(***************************************************************************)
Scale == 10 * 100           \* a number n stands for n / Scale

Bool(b) == [t |-> "bool", b |-> b]
Arr(a) == [t |-> "arr", a |-> a]
Obj(e) == [t |-> "obj", e |-> e]    \* e: <<key, value>> pairs, Object.entries order

Digits == <<"0", "1", "2", "3", "4", "5", "6", "7", "8", "9">>
IsDigit(c) == c \in Range(Digits)
DigitVal(c) == (CHOOSE i \in DOMAIN Digits : Digits[i] = c) - 1

RECURSIVE DigitPrefix(_)
DigitPrefix(s) ==
    IF s # <<>> /\ IsDigit(Head(s)) THEN <<Head(s)>> \o DigitPrefix(Tail(s))
    ELSE <<>>

RECURSIVE IntVal(_)
IntVal(ds) ==
    IF ds = <<>> THEN 0
    ELSE 10 * IntVal(SubSeq(ds, 1, Len(ds) - 1)) + DigitVal(ds[Len(ds)])

\* the fraction digits as a count of 1/Scale (digits past the third dropped)
FracVal(ds) ==
    LET d(i) == IF i <= Len(ds) THEN DigitVal(ds[i]) ELSE 0
    IN 100 * d(1) + 10 * d(2) + d(3)

\* the decimal literal at the start of s: [ok, value, rest]; no exponent part
\* and no "Infinity" (the generated inputs hold neither)
DecimalPrefix(s) ==
    LET Parts(neg, u, ip, hasDot, fp) ==
            [ok |-> ip # <<>> \/ fp # <<>>,
             value |-> (IF neg THEN -1 ELSE 1) * (IntVal(ip) * Scale + FracVal(fp)),
             rest |-> SubSeq(u, Len(ip) + 1
                                + (IF hasDot /\ (fp # <<>> \/ ip # <<>>)
                                   THEN 1 + Len(fp) ELSE 0),
                             Len(u))]
        Fraction(neg, u, ip, afterInt, hasDot) ==
            Parts(neg, u, ip, hasDot,
                  IF hasDot THEN DigitPrefix(Tail(afterInt)) ELSE <<>>)
        Dot(neg, u, ip, afterInt) ==
            Fraction(neg, u, ip, afterInt, afterInt # <<>> /\ Head(afterInt) = ".")
        Integer(neg, u, ip) == Dot(neg, u, ip, SubSeq(u, Len(ip) + 1, Len(u)))
        Unsigned(neg, u) == Integer(neg, u, DigitPrefix(u))
    IN Unsigned(s # <<>> /\ Head(s) = "-",
                IF s # <<>> /\ Head(s) \in {"-", "+"} THEN Tail(s) ELSE s)

RECURSIVE NatToString(_)
NatToString(n) ==
    IF n < 10 THEN <<Digits[n + 1]>>
    ELSE NatToString(n \div 10) \o <<Digits[(n % 10) + 1]>>

RECURSIVE StripZeros(_)
StripZeros(ds) ==
    IF ds # <<>> /\ ds[Len(ds)] = "0" THEN StripZeros(SubSeq(ds, 1, Len(ds) - 1))
    ELSE ds

\* Number.prototype.toString of n / Scale
NumToString(n) ==
    LET mag == IF n < 0 THEN -n ELSE n
        frac == mag % Scale
        fd == NatToString(Scale + frac)      \* "1ddd"
        fs == StripZeros(Tail(fd))
    IN (IF n < 0 THEN <<"-">> ELSE <<>>)
       \o NatToString(mag \div Scale)
       \o (IF fs = <<>> THEN <<>> ELSE <<".">> \o fs)

\* String(v), as a template literal applies it
StringOf(v) ==
    CASE v.t = "str" -> v.s
      [] v.t = "num" -> NumToString(v.v)
      [] v.t = "undefined" -> T.undefined
      [] v.t = "null" -> T.null
      [] v.t = "bool" -> IF v.b THEN T.true ELSE T.false
      [] OTHER -> <<>>

\* global parseFloat: the longest decimal literal after leading white space
parseFloat(v) ==
    CASE v.t = "num" -> v
      [] v.t = "nan" -> v
      [] v.t \in {"str", "undefined", "null", "bool"} ->
            LET Parsed(p) == IF p.ok THEN Num(p.value) ELSE NaN
            IN Parsed(DecimalPrefix(TrimLeft(StringOf(v))))
      [] OTHER -> NaN

\* Number(v): the whole trimmed text must be a decimal literal
StringToNumber(s) ==
    LET Literal(t, p) ==
            IF t = <<>> THEN Num(0)
            ELSE IF p.ok /\ p.rest = <<>> THEN Num(p.value) ELSE NaN
        Trimmed(t) == Literal(t, DecimalPrefix(t))
    IN Trimmed(trim(s))

RECURSIVE ToNumber(_)
ToNumber(v) ==
    CASE v.t \in {"num", "nan"} -> v
      [] v.t = "str" -> StringToNumber(v.s)
      [] v.t = "null" -> Num(0)
      [] v.t = "bool" -> IF v.b THEN Num(Scale) ELSE Num(0)
      [] v.t = "arr" -> IF v.a = <<>> THEN Num(0)
                        ELSE IF Len(v.a) = 1 /\ v.a[1].t \in {"num", "str"}
                             THEN ToNumber(v.a[1])
                             ELSE NaN
      [] OTHER -> NaN

isNaN(v) == ToNumber(v).t = "nan"

\* a >= b and a <= b on values, after ToNumber; false when either is NaN
GreaterEq(a, b) ==
    LET Compare(x, y) ==
            IF x.t = "nan" \/ y.t = "nan" THEN FALSE ELSE x.v >= y.v
    IN Compare(ToNumber(a), ToNumber(b))

LessEq(a, b) == GreaterEq(b, a)

\* the truth value of v in a condition or before ||
Truthy(v) ==
    CASE v.t = "num" -> v.v # 0
      [] v.t = "str" -> v.s # <<>>
      [] v.t = "bool" -> v.b
      [] v.t \in {"null", "undefined", "nan"} -> FALSE
      [] OTHER -> TRUE

\* a || b
OrElse(a, b) == IF Truthy(a) THEN a ELSE b

(***************************************************************************)
(* DataLoader helpers                                                      *)
(***************************************************************************)
\* cleanRouteId without the trim() of a string
cleanRouteId_NoTrim(routeId) ==
    CASE routeId.t = "num" -> NumToString(routeId.v)
      [] routeId.t = "nan" -> <<"N", "a", "N">>
      [] routeId.t = "str" -> routeId.s
      [] OTHER -> <<>>

\* cleanRouteId(routeId) (lines 245-249); typeof NaN is 'number' and
\* NaN.toString() is "NaN"
cleanRouteId(routeId) ==
    CASE routeId.t = "num" -> NumToString(routeId.v)
      [] routeId.t = "nan" -> <<"N", "a", "N">>
      [] routeId.t = "str" -> trim(routeId.s)
      [] OTHER -> <<>>

\* parseNumber with the empty string read as the number 0
parseNumber_EmptyIsZero(value) ==
    LET Checked(num) == IF num.t = "nan" THEN Null ELSE num
    IN IF value = Null \/ value = Undefined THEN Null
       ELSE IF value = Str(<<>>) THEN Num(0)
       ELSE Checked(parseFloat(value))

\* parseNumber without the isNaN test: the result of parseFloat as it is
parseNumber_KeepsNaN(value) ==
    IF value = Null \/ value = Undefined \/ value = Str(<<>>) THEN Null
    ELSE parseFloat(value)

\* parseNumber(value) (lines 252-257)
parseNumber(value) ==
    LET Checked(num) == IF num.t = "nan" THEN Null ELSE num
    IN IF value = Null \/ value = Undefined \/ value = Str(<<>>) THEN Null
       ELSE Checked(parseFloat(value))

\* isValidCoordinate without the upper limit of the latitude
isValidCoordinate_NoUpperLat(lat, lng) ==
    /\ lat # Null
    /\ lng # Null
    /\ ~isNaN(lat)
    /\ ~isNaN(lng)
    /\ GreaterEq(lat, Num(-90 * Scale))
    /\ GreaterEq(lng, Num(-180 * Scale)) /\ LessEq(lng, Num(180 * Scale))

isValidCoordinate(lat, lng) ==
    /\ lat # Null
    /\ lng # Null
    /\ ~isNaN(lat)
    /\ ~isNaN(lng)
    /\ GreaterEq(lat, Num(-90 * Scale)) /\ LessEq(lat, Num(90 * Scale))
    /\ GreaterEq(lng, Num(-180 * Scale)) /\ LessEq(lng, Num(180 * Scale))

\* row.name of a parsed CSV row: the cell, or undefined
Cell(row, name) == IF name \in DOMAIN row THEN Str(row[name]) ELSE Undefined

(***************************************************************************)
(* DataLoader.parseCSV                                                     *)
(***************************************************************************)
SplitCells(line) == MapSeq(trim, split(line, Comma))

\* CSVRow without the '' of a missing cell: the key is not set
CSVRow_NoBackfill(headers, values) ==
    [h \in {headers[i] : i \in DOMAIN headers \cap DOMAIN values} |->
        LET last == CHOOSE i \in DOMAIN headers \cap DOMAIN values :
                        /\ headers[i] = h
                        /\ \A j \in DOMAIN headers \cap DOMAIN values :
                              headers[j] = h => j <= i
        IN values[last]]

\* headers.forEach((header, index) => row[header] = values[index] || ''):
\* a later column of the same name overwrites an earlier one
CSVRow(headers, values) ==
    [h \in Range(headers) |->
        LET last == CHOOSE i \in DOMAIN headers :
                        /\ headers[i] = h
                        /\ \A j \in DOMAIN headers : headers[j] = h => j <= i
        IN IF last <= Len(values) THEN values[last] ELSE <<>>]

\* parseCSV without the trim of the text
parseCSV_NoTrim(text) ==
    LET Rows(lines) ==
            IF Len(lines) < 2 THEN <<>>
            ELSE LET RowOf(line) == CSVRow(SplitCells(lines[1]), SplitCells(line))
                 IN MapSeq(RowOf, Tail(lines))
    IN Rows(split(text, LF))

parseCSV(text) ==
    LET Rows(lines) ==
            IF Len(lines) < 2 THEN <<>>
            ELSE LET RowOf(line) == CSVRow(SplitCells(lines[1]), SplitCells(line))
                 IN MapSeq(RowOf, Tail(lines))
    IN Rows(split(trim(text), LF))

\* JSON.parse of a cell: null, true, false, a number, or a flat array of
\* those; anything else is a SyntaxError.  (Strings, objects and nested arrays
\* are not among the generated cells and are rejected here.)
JSONScalar(t) ==
    LET Literal(p, ip, frac) ==
            CASE t = T.null -> Value(Null)
              [] t = T.true -> Value(Bool(TRUE))
              [] t = T.false -> Value(Bool(FALSE))
              [] /\ t # <<>> /\ Head(t) # "+"
                 /\ ip # <<>> /\ (Len(ip) = 1 \/ Head(ip) # "0")
                 /\ (frac = <<>> \/ (Head(frac) = "." /\ Len(frac) > 1))
                 /\ p.ok /\ p.rest = <<>> -> Value(Num(p.value))
              [] OTHER -> Throw
        Digital(body, ip) ==
            Literal(DecimalPrefix(t), ip, SubSeq(body, Len(ip) + 1, Len(body)))
        Unsigned(body) == Digital(body, DigitPrefix(body))
    IN Unsigned(IF t # <<>> /\ Head(t) = "-" THEN Tail(t) ELSE t)

JSONParse(s) ==
    LET Items(items) ==
            IF \E i \in DOMAIN items : items[i] = Throw THEN Throw
            ELSE Value(Arr([i \in DOMAIN items |-> items[i].value]))
        List(inner) ==
            IF inner = <<>> THEN Value(Arr(<<>>))
            ELSE Items(MapSeq(JSONScalar, MapSeq(trim, split(inner, Comma))))
        Text(t) ==
            IF Len(t) >= 2 /\ Head(t) = "[" /\ t[Len(t)] = "]"
            THEN List(trim(SubSeq(t, 2, Len(t) - 1)))
            ELSE JSONScalar(t)
    IN Text(trim(s))

(***************************************************************************)
(* The cache and the two fetch helpers                                     *)
(***************************************************************************)
F_routes == "route_performance.csv"
F_geometries == "route_geometries.json"
F_locations == "location_analysis.csv"
F_statistics == "summary_statistics.json"

cacheTimeout == 5 * 60 * 1000

NoEntry == [present |-> FALSE]
Entry(data, timestamp) == [present |-> TRUE, data |-> data, timestamp |-> timestamp]
CacheKeys == {<<"csv", F_routes>>, <<"csv", F_locations>>,
              <<"json", F_geometries>>, <<"json", F_statistics>>}
EmptyCache == [k \in CacheKeys |-> NoEntry]

\* isCacheValid that takes an entry of exactly cacheTimeout for valid
isCacheValid_Inclusive(key) ==
    IF ~cache[key].present THEN FALSE
    ELSE (now - cache[key].timestamp) <= cacheTimeout

isCacheValid(key) ==
    IF ~cache[key].present THEN FALSE
    ELSE (now - cache[key].timestamp) < cacheTimeout

\* What one fetch meets: the request fails, the server answers with a status
\* that is not OK, or it answers with the body of the file.
NetOutcomes == {"network_error", "not_ok", "ok"}
Malformed == [t |-> "malformed"]      \* a JSON body that does not decode

\* fetchCSV that answers a failed request with the entry it holds
fetchCSV_ServesExpired(filename, net) ==
    LET Fetch(cacheKey, data) ==
            IF cache[cacheKey].present /\ (isCacheValid(cacheKey) \/ net # "ok")
            THEN [completion |-> Value(cache[cacheKey].data), cache |-> cache,
                  fetched |-> ~isCacheValid(cacheKey)]
            ELSE IF net # "ok"
            THEN [completion |-> Throw, cache |-> cache, fetched |-> TRUE]
            ELSE [completion |-> Value(data),
                  cache |-> [cache EXCEPT ![cacheKey] = Entry(data, now)],
                  fetched |-> TRUE]
    IN Fetch(<<"csv", filename>>, parseCSV(files[filename]))

\* fetchCSV: [completion, cache, fetched]; fetched tells whether a request
\* went to the network
fetchCSV(filename, net) ==
    LET Fetch(cacheKey, data) ==
            IF isCacheValid(cacheKey)
            THEN [completion |-> Value(cache[cacheKey].data), cache |-> cache,
                  fetched |-> FALSE]
            ELSE IF net # "ok"
            THEN [completion |-> Throw, cache |-> cache, fetched |-> TRUE]
            ELSE [completion |-> Value(data),
                  cache |-> [cache EXCEPT ![cacheKey] = Entry(data, now)],
                  fetched |-> TRUE]
    IN Fetch(<<"csv", filename>>, parseCSV(files[filename]))

fetchJSON(filename, net) ==
    LET cacheKey == <<"json", filename>>
        data == files[filename]
    IN IF isCacheValid(cacheKey)
       THEN [completion |-> Value(cache[cacheKey].data), cache |-> cache,
             fetched |-> FALSE]
       ELSE IF net # "ok" \/ data = Malformed
       THEN [completion |-> Throw, cache |-> cache, fetched |-> TRUE]
       ELSE [completion |-> Value(data),
             cache |-> [cache EXCEPT ![cacheKey] = Entry(data, now)],
             fetched |-> TRUE]

(***************************************************************************)
(* Fallback data                                                           *)
(***************************************************************************)
SampleRoute(id, name, avg, count, total, onTime, freq) ==
    [Route |-> id, route_long_name |-> name, Avg_Delay_Min |-> Num(avg),
     Delay_Count |-> Num(count * Scale), Total_Delay_Min |-> Num(total),
     On_Time_Percentage |-> Num(onTime), Delay_Frequency |-> Num(freq)]

getSampleRoutePerformance ==
    << SampleRoute(T.id501, T.Queen, 8500, 245, 2082500, 72300, 2100),
       SampleRoute(T.id504, T.King, 12300, 189, 2324700, 65800, 3400),
       SampleRoute(T.id505, T.Dundas, 6700, 156, 1045200, 81200, 1800),
       SampleRoute(T.id506, T.Carlton, 15200, 278, 4225600, 58900, 4200),
       SampleRoute(T.id509, T.Harbourfront, 4300, 98, 421400, 88700, 1200),
       SampleRoute(T.id510, T.Spadina, 9800, 167, 1636600, 74500, 2500) >>

\* Math.random(): the draws a call can see, as counts of 1/Scale in [0, 1)
RandomDraws == <<0, 999>>
RandomSeeds == 0..(Len(RandomDraws) - 1)
Random(seed, k) == RandomDraws[((seed + k) % Len(RandomDraws)) + 1]

\* cos and sin of i/n of a turn, as counts of 1/Scale: the piecewise linear
\* wave through the values at the quarter turns (the range [-1, 1] is kept)
Wave(q) == IF q <= 2 * Scale THEN Scale - q ELSE q - 3 * Scale

generateRouteCoordinates(center, radius, pointCount, seed) ==
    [k \in 1..pointCount |->
        LET i == k - 1
            lat == center[1]
                   + (Wave((4 * i * Scale) \div pointCount) * radius
                        * (500 + Random(seed, 2 * i) \div 2)) \div (Scale * Scale)
            lng == center[2]
                   + (Wave((((4 * i + 3 * pointCount) % (4 * pointCount)) * Scale)
                            \div pointCount) * radius
                        * (500 + Random(seed, 2 * i + 1) \div 2)) \div (Scale * Scale)
        IN Arr(<<Num(lat), Num(lng)>>)]

\* [43.6532, -79.3832], the fourth decimal dropped
torontoCenter == <<43653, -79383>>

SampleRouteGeometries ==
    [seed \in RandomSeeds |->
    (T.id501 :> generateRouteCoordinates(torontoCenter, 20, 15, seed))
    @@ (T.id504 :> generateRouteCoordinates(torontoCenter, 25, 20, seed + 1))
    @@ (T.id505 :> generateRouteCoordinates(torontoCenter, 18, 12, seed + 2))
    @@ (T.id506 :> generateRouteCoordinates(torontoCenter, 22, 18, seed))
    @@ (T.id509 :> generateRouteCoordinates(torontoCenter, 15, 10, seed + 1))
    @@ (T.id510 :> generateRouteCoordinates(torontoCenter, 20, 16, seed + 2))]

\* one call of getSampleRouteGeometries, its random draws chosen by seed
getSampleRouteGeometries(seed) == SampleRouteGeometries[seed]

DateNow == [t |-> "date", ms |-> now]     \* new Date().toISOString()

\* getDefaultStatistics with total_delays 0
getDefaultStatistics_NoDelays ==
    [total_delays |-> Num(0),
     avg_delay_min |-> Num(8700),
     total_routes |-> Num(156 * Scale),
     coverage_percentage |-> Num(87500),
     data_points |-> Num(456892 * Scale),
     time_period |-> Str(T.Last30Days),
     updated_at |-> DateNow,
     peak_delay_hour |-> Str(T.EightOClock),
     most_delayed_route |-> Str(T.CarltonRoute)]

\* getDefaultStatistics() (lines 330-342)
getDefaultStatistics ==
    [total_delays |-> Num(12478 * Scale),
     avg_delay_min |-> Num(8700),
     total_routes |-> Num(156 * Scale),
     coverage_percentage |-> Num(87500),
     data_points |-> Num(456892 * Scale),
     time_period |-> Str(T.Last30Days),
     updated_at |-> DateNow,
     peak_delay_hour |-> Str(T.EightOClock),
     most_delayed_route |-> Str(T.CarltonRoute)]

\* try { body } catch { return fallback }
Catch(completion, fallback) ==
    IF completion.kind = "throw" THEN Value(fallback) ELSE completion

(***************************************************************************)
(* DataLoader.loadRoutePerformance                                         *)
(***************************************************************************)
RouteOfRow(row) ==
    [Route |-> cleanRouteId(Cell(row, K.Route)),
     route_long_name |->
        StringOf(OrElse(Cell(row, K.route_long_name),
                        Str(T.RoutePrefix \o StringOf(Cell(row, K.Route))))),
     Avg_Delay_Min |-> parseNumber(Cell(row, K.Avg_Delay_Min)),
     Delay_Count |-> parseNumber(Cell(row, K.Delay_Count)),
     Total_Delay_Min |-> parseNumber(Cell(row, K.Total_Delay_Min)),
     On_Time_Percentage |-> parseNumber(Cell(row, K.On_Time_Percentage)),
     Delay_Frequency |-> parseNumber(Cell(row, K.Delay_Frequency))]

\* IsValidRoute without the test of Delay_Count
IsValidRoute_NoCount(route) ==
    /\ route.Avg_Delay_Min # Null
    /\ route.Route # <<>>

\* the predicate of the .filter() of lines 37-45
IsValidRoute(route) ==
    /\ route.Avg_Delay_Min # Null
    /\ route.Delay_Count # Null
    /\ route.Route # <<>>

\* processRoutePerformance without the sample routes for an empty result
processRoutePerformance_NoSample(data) ==
    FilterSeq(IsValidRoute, MapSeq(RouteOfRow, data))

\* lines 16-54, given the rows fetchCSV returned
processRoutePerformance(data) ==
    LET Processed(processedData) ==
            IF Len(data) = 0 THEN getSampleRoutePerformance
            ELSE IF Len(processedData) = 0 THEN getSampleRoutePerformance
            ELSE processedData
    IN Processed(FilterSeq(IsValidRoute, MapSeq(RouteOfRow, data)))

loadRoutePerformance(net) ==
    LET Body(f) == IF f.completion.kind = "throw" THEN Throw
                   ELSE Value(processRoutePerformance(f.completion.value))
        Load(f) == [completion |-> Catch(Body(f), getSampleRoutePerformance),
                    cache |-> f.cache, fetched |-> f.fetched]
    IN Load(fetchCSV(F_routes, net))

(***************************************************************************)
(* DataLoader.loadRouteGeometries                                          *)
(***************************************************************************)
EmptyMap == [k \in {} |-> <<>>]
Put(map, key, value) ==
    [k \in DOMAIN map \cup {key} |-> IF k = key THEN value ELSE map[k]]

\* Object.entries(data): a TypeError for null and undefined, the own
\* enumerable properties otherwise
ObjectEntries(data) ==
    CASE data.t \in {"null", "undefined"} -> Throw
      [] data.t = "obj" -> Value(data.e)
      [] data.t = "arr" ->
            Value([i \in DOMAIN data.a |-> <<NatToString(i - 1), data.a[i]>>])
      [] data.t = "str" ->
            Value([i \in DOMAIN data.s |-> <<NatToString(i - 1), Str(<<data.s[i]>>)>>])
      [] OTHER -> Value(<<>>)

\* the predicate of the .filter() of lines 78-83
IsValidPair(coord) ==
    /\ Truthy(coord)
    /\ coord.t = "arr"
    /\ Len(coord.a) = 2
    /\ isValidCoordinate(coord.a[1], coord.a[2])

\* the loop of lines 73-94
RECURSIVE processGeometries(_, _)
processGeometries(entries, processedGeometries) ==
    LET Visit(routeId, coordinates, validCoords) ==
            IF /\ Truthy(coordinates)
               /\ coordinates.t = "arr"
               /\ Len(coordinates.a) > 0
               /\ Len(validCoords) > 0
            THEN processGeometries(Tail(entries),
                                   Put(processedGeometries,
                                       cleanRouteId(Str(routeId)), validCoords))
            ELSE processGeometries(Tail(entries), processedGeometries)
    IN IF entries = <<>> THEN processedGeometries
       ELSE Visit(Head(entries)[1], Head(entries)[2],
                   FilterSeq(IsValidPair, Head(entries)[2].a))

loadRouteGeometries(net, seed) ==
    LET Entries(entries) ==
            IF entries.kind = "throw" THEN Throw
            ELSE Value(processGeometries(entries.value, EmptyMap))
        Body(f) == IF f.completion.kind = "throw" THEN Throw
                   ELSE Entries(ObjectEntries(f.completion.value))
        Load(f) == [completion |-> Catch(Body(f), getSampleRouteGeometries(seed)),
                    cache |-> f.cache, fetched |-> f.fetched]
    IN Load(fetchJSON(F_geometries, net))

(***************************************************************************)
(* DataLoader.loadLocationAnalysis                                         *)
(***************************************************************************)
\* the callback of the .map() of lines 115-124: it throws when JSON.parse does
LocationOfRow(row) ==
    LET Location(peak) ==
            IF peak.kind = "throw" THEN Throw
            ELSE Value([location_id |-> Cell(row, K.location_id),
                        location_name |-> Cell(row, K.location_name),
                        total_delays |-> parseNumber(Cell(row, K.total_delays)),
                        avg_delay_min |-> parseNumber(Cell(row, K.avg_delay_min)),
                        latitude |-> parseNumber(Cell(row, K.latitude)),
                        longitude |-> parseNumber(Cell(row, K.longitude)),
                        route_count |-> parseNumber(Cell(row, K.route_count)),
                        peak_hours |-> peak.value])
        Peak(cell) == IF Truthy(cell) THEN JSONParse(cell.s) ELSE Value(Arr(<<>>))
    IN Location(Peak(Cell(row, K.peak_hours)))

\* the predicate of the .filter() of lines 124-128
IsValidLocation(location) ==
    /\ location.latitude # Null
    /\ location.longitude # Null
    /\ isValidCoordinate(location.latitude, location.longitude)

\* lines 115-131: an exception of any row ends the whole map()
processLocationAnalysis(data) ==
    LET Mapped(mapped) ==
            IF \E i \in DOMAIN mapped : mapped[i] = Throw THEN Throw
            ELSE Value(FilterSeq(IsValidLocation,
                                 [i \in DOMAIN mapped |-> mapped[i].value]))
    IN Mapped(MapSeq(LocationOfRow, data))

loadLocationAnalysis(net) ==
    LET Body(f) == IF f.completion.kind = "throw" THEN Throw
                   ELSE processLocationAnalysis(f.completion.value)
        Load(f) == [completion |-> Catch(Body(f), <<>>),
                    cache |-> f.cache, fetched |-> f.fetched]
    IN Load(fetchCSV(F_locations, net))

(***************************************************************************)
(* DataLoader.loadSummaryStatistics                                        *)
(***************************************************************************)
\* data.name: a TypeError for null and undefined
HasProp(data, name) ==
    data.t = "obj" /\ \E i \in DOMAIN data.e : data.e[i][1] = name
Prop(data, name) ==
    IF HasProp(data, name)
    THEN data.e[CHOOSE i \in DOMAIN data.e : data.e[i][1] = name][2]
    ELSE Undefined

\* lines 146-156
statsOf(data) ==
    [total_delays |-> OrElse(Prop(data, K.total_delays), Num(0)),
     avg_delay_min |-> OrElse(Prop(data, K.avg_delay_minutes), Num(0)),
     total_routes |-> OrElse(Prop(data, K.unique_routes), Num(0)),
     coverage_percentage |-> OrElse(Prop(data, K.coverage_percentage), Num(0)),
     data_points |-> OrElse(Prop(data, K.data_points), Num(0)),
     time_period |-> OrElse(Prop(data, K.time_period), Str(T.Last30Days)),
     updated_at |-> OrElse(Prop(data, K.updated_at), DateNow),
     peak_delay_hour |-> OrElse(Prop(data, K.peak_delay_hour), Str(T.EightOClock)),
     most_delayed_route |-> OrElse(Prop(data, K.most_delayed_route), Str(T.Unknown))]

\* loadSummaryStatistics without its catch block
loadSummaryStatistics_NoCatch(net) ==
    LET Body(f) == IF f.completion.kind = "throw" THEN Throw
                   ELSE IF f.completion.value.t \in {"null", "undefined"} THEN Throw
                   ELSE Value(statsOf(f.completion.value))
        Load(f) == [completion |-> Body(f), cache |-> f.cache, fetched |-> f.fetched]
    IN Load(fetchJSON(F_statistics, net))

loadSummaryStatistics(net) ==
    LET Body(f) == IF f.completion.kind = "throw" THEN Throw
                   ELSE IF f.completion.value.t \in {"null", "undefined"} THEN Throw
                   ELSE Value(statsOf(f.completion.value))
        Load(f) == [completion |-> Catch(Body(f), getDefaultStatistics),
                    cache |-> f.cache, fetched |-> f.fetched]
    IN Load(fetchJSON(F_statistics, net))

(***************************************************************************)
(* The load operations as steps of the program                             *)
(***************************************************************************)
Finish(op, net, r) ==
    /\ cache' = r.cache
    /\ lastLoad' = [op |-> op, net |-> net, fetched |-> r.fetched,
                    completion |-> r.completion]
    /\ UNCHANGED <<csvText, csvResult, files, now, state, searchTimeout, mapVisualizer, app>>

LoadRoutePerformance ==
    \E net \in NetOutcomes :
        Finish("loadRoutePerformance", net, loadRoutePerformance(net))

LoadRouteGeometries ==
    \E net \in NetOutcomes, seed \in RandomSeeds :
        Finish("loadRouteGeometries", net, loadRouteGeometries(net, seed))

LoadLocationAnalysis ==
    \E net \in NetOutcomes :
        Finish("loadLocationAnalysis", net, loadLocationAnalysis(net))

LoadSummaryStatistics ==
    \E net \in NetOutcomes :
        Finish("loadSummaryStatistics", net, loadSummaryStatistics(net))

\* the clock moves on by one freshness window
Tick ==
    /\ now < MaxTicks * cacheTimeout
    /\ now' = now + cacheTimeout
    /\ UNCHANGED <<csvText, csvResult, files, cache, lastLoad, state, searchTimeout, mapVisualizer, app>>

\* a call of fetchCSV(filename) or of fetchJSON(filename) on its own; op is
\* the cache key of the call
FetchCSV(filename, net) == Finish(<<"csv", filename>>, net, fetchCSV(filename, net))
FetchJSON(filename, net) == Finish(<<"json", filename>>, net, fetchJSON(filename, net))

\* the instants at which calls are made: around the multiples of the
\* freshness window
Instants ==
    {k * cacheTimeout + e : k \in 0..MaxTicks, e \in {0, 1, cacheTimeout - 1}}

\* Date.now() moves on to a later instant
Elapse(instant) ==
    /\ instant > now
    /\ now' = instant
    /\ UNCHANGED <<csvText, csvResult, files, cache, lastLoad, state, searchTimeout,
                   mapVisualizer, app>>

\* the server replaces a file
ServerUpdates(filename, body) ==
    /\ files[filename] # body
    /\ files' = [files EXCEPT ![filename] = body]
    /\ UNCHANGED <<csvText, csvResult, cache, now, lastLoad, state, searchTimeout,
                   mapVisualizer, app>>

(***************************************************************************)
(* MapVisualizer: colour scales and the layers of the three views          *)
(***************************************************************************)
\* this.config (dataLoader.js 428-461); a colour '#rrggbb' is kept as its
\* three bytes <<red, green, blue>>, weights and opacities as JS numbers
config ==
    [routeDelay |->
        [colors |-> << <<16, 185, 129>>, <<245, 158, 11>>, <<239, 68, 68>>,
                       <<124, 58, 237>> >>,
         weight |-> Num(4 * Scale), opacity |-> Num(700)],
     comparison |->
        [highDelay |-> [color |-> <<239, 68, 68>>, weight |-> Num(6 * Scale),
                        opacity |-> Num(800)],
         lowDelay |-> [color |-> <<16, 185, 129>>, weight |-> Num(4 * Scale),
                       opacity |-> Num(800)]],
     frequency |->
        [colors |-> << <<147, 197, 253>>, <<59, 130, 246>>, <<29, 78, 216>>,
                       <<126, 34, 206>> >>,
         minWeight |-> 3 * Scale, maxWeight |-> 8 * Scale]]

\* the fields the MapVisualizer constructor sets (dataLoader.js 417-426);
\* activeLayers holds the entries of the Map in insertion order, untracked
\* the layers on the Leaflet map that no entry of activeLayers refers to;
\* "null" stands for null; highlightedRoute is Null or names the highlighted
\* layer by the key of its entry in activeLayers
ConstructedVisualizer ==
    [routes |-> <<>>, routeGeometries |-> EmptyMap, currentVisualization |-> "null",
     activeLayers |-> <<>>, untracked |-> <<>>, legend |-> "null",
     colorScales |-> EmptyMap, highlightedRoute |-> Null]

\* the text '#aN' that interpolateColor builds from channels that are NaN
NaNColor == <<"a", "N">>

\* interpolateColor(color1, color2, ratio) for the ratio num / den; the
\* ratio 0 / 0 is NaN; Math.round(x) is the floor of x + 1/2
interpolateColor(color1, color2, num, den) ==
    LET Channel(c1, c2, n, d) ==
            (2 * c1 * d + 2 * (c2 - c1) * n + d) \div (2 * d)
        Mix(n, d) == [i \in 1..3 |-> Channel(color1[i], color2[i], n, d)]
    IN IF den = 0 THEN NaNColor
       ELSE IF den < 0 THEN Mix(-num, -den)
       ELSE Mix(num, den)

\* createColorScale with the test of the last breakpoint before the test of
\* the first
createColorScale_LastFirst(breaks, colors, value) ==
    LET Hits(i) == value >= breaks[i] /\ value <= breaks[i + 1]
        Between(i) ==
            interpolateColor(colors[i], colors[i + 1], value - breaks[i],
                             breaks[i + 1] - breaks[i])
        First(found) ==
            IF found = {} THEN colors[1]
            ELSE Between(CHOOSE i \in found : \A j \in found : i <= j)
    IN IF value >= breaks[Len(breaks)] THEN colors[Len(colors)]
       ELSE IF value <= breaks[1] THEN colors[1]
       ELSE First({i \in 1..(Len(breaks) - 1) : Hits(i)})

\* the function createColorScale(breaks, colors) returns, applied to value;
\* breaks and value are counts of one unit
createColorScale(breaks, colors, value) ==
    LET Hits(i) == value >= breaks[i] /\ value <= breaks[i + 1]
        Between(i) ==
            interpolateColor(colors[i], colors[i + 1], value - breaks[i],
                             breaks[i + 1] - breaks[i])
        First(found) ==
            IF found = {} THEN colors[1]
            ELSE Between(CHOOSE i \in found : \A j \in found : i <= j)
    IN IF value <= breaks[1] THEN colors[1]
       ELSE IF value >= breaks[Len(breaks)] THEN colors[Len(colors)]
       ELSE First({i \in 1..(Len(breaks) - 1) : Hits(i)})

\* Math.max(...values) and Math.min(...values) of a list that is not empty
MathMax(values) == CHOOSE v \in Range(values) : \A w \in Range(values) : w <= v
MathMin(values) == CHOOSE v \in Range(values) : \A w \in Range(values) : v <= w

\* the breakpoints [0, max * 0.2, max * 0.6, max]
Breaks_Fifth(max) == <<0, 2 * max, 6 * max, 10 * max>>

\* the breakpoints [0, max * 0.3, max * 0.6, max] of initializeColorScales,
\* in tenths of the unit of max
Breaks(max) == <<0, 3 * max, 6 * max, 10 * max>>

\* initializeColorScales(): the breakpoints of the two scales
initializeColorScales(routes) ==
    [delay |-> Breaks(MathMax([i \in DOMAIN routes |-> routes[i].Avg_Delay_Min.v])),
     frequency |-> Breaks(MathMax([i \in DOMAIN routes |-> routes[i].Delay_Count.v]))]

\* this.colorScales.get(name)(value)
colorScale(mv, name, value) ==
    createColorScale(mv.colorScales[name],
                     IF name = "delay" THEN config.routeDelay.colors
                     ELSE config.frequency.colors,
                     10 * value)

\* MapVisualizer.init(map, routeGeometries, routes)
init(mv, routeGeometries, routes) ==
    [mv EXCEPT !.routeGeometries = routeGeometries, !.routes = routes,
               !.colorScales = initializeColorScales(routes)]

\* Array.prototype.sort with the comparator sign * (a[field] - b[field]):
\* stable, ascending for sign 1 and descending for sign -1
RECURSIVE sort(_, _, _)
sort(s, field, sign) ==
    LET Place(front, x, k) ==
            SubSeq(front, 1, k) \o <<x>> \o SubSeq(front, k + 1, Len(front))
        Insert(front, x) ==
            Place(front, x,
                  Cardinality({i \in DOMAIN front :
                                 sign * (front[i][field].v - x[field].v) <= 0}))
    IN IF s = <<>> THEN <<>>
       ELSE Insert(sort(SubSeq(s, 1, Len(s) - 1), field, sign), s[Len(s)])

\* the first n elements: slice(0, n)
slice(s, n) == SubSeq(s, 1, IF Len(s) < n THEN Len(s) ELSE n)

\* clearVisualization() (lines 924-943): the layers of activeLayers leave the
\* map, the others stay on it
clearVisualization(mv) ==
    [mv EXCEPT !.activeLayers = <<>>, !.legend = "null",
               !.highlightedRoute = Null, !.currentVisualization = "null"]

\* L.polyline(geometry, options).addTo(map) and activeLayers.set(key, polyline)
addLayer(mv, key, layer) ==
    LET Old(found) ==
            IF found = {} THEN <<>>
            ELSE <<mv.activeLayers[CHOOSE i \in found : TRUE].layer>>
        Set(found) ==
            IF found = {} THEN Append(mv.activeLayers, [key |-> key, layer |-> layer])
            ELSE [i \in DOMAIN mv.activeLayers |->
                    IF i \in found THEN [key |-> key, layer |-> layer]
                    ELSE mv.activeLayers[i]]
        Add(found) ==
            [mv EXCEPT !.activeLayers = Set(found), !.untracked = @ \o Old(found)]
    IN Add({i \in DOMAIN mv.activeLayers : mv.activeLayers[i].key = key})

RECURSIVE addLayers(_, _)
addLayers(mv, entries) ==
    IF entries = <<>> THEN mv
    ELSE addLayers(addLayer(mv, Head(entries).key, Head(entries).layer),
                   Tail(entries))

\* the colour '#fbbf24' of a highlighted line (line 885)
HighlightColor == <<251, 191, 36>>

\* key.endsWith(`_${routeId}`)
endsWith(key, suffix) ==
    /\ Len(suffix) <= Len(key)
    /\ SubSeq(key, Len(key) - Len(suffix) + 1, Len(key)) = suffix

\* findRouteLayer(routeId) (lines 907-914): the position in activeLayers of
\* the first entry whose key is the id or ends in '_' and the id; 0 for null
findRouteLayer(mv, routeId) ==
    LET Found == {i \in DOMAIN mv.activeLayers :
                    \/ mv.activeLayers[i].key = routeId
                    \/ endsWith(mv.activeLayers[i].key, <<"_">> \o routeId)}
    IN IF Found = {} THEN 0 ELSE CHOOSE i \in Found : \A j \in Found : i <= j

\* layer.options of a line, as highlightRoute copies them (lines 877-881)
styleOf(layer) ==
    [color |-> layer.color, weight |-> layer.weight, opacity |-> layer.opacity]

\* layer.setStyle(style) on the layer that the entry under key holds
setStyle(mv, key, style) ==
    [mv EXCEPT !.activeLayers =
        [i \in DOMAIN @ |->
            IF @[i].key = key
            THEN [@[i] EXCEPT !.layer.color = style.color,
                              !.layer.weight = style.weight,
                              !.layer.opacity = style.opacity]
            ELSE @[i]]]

clearHighlight_KeepsStyle(mv) ==
    [mv EXCEPT !.highlightedRoute = Null]

\* clearHighlight() (lines 916-922)
clearHighlight(mv) ==
    IF mv.highlightedRoute = Null THEN mv
    ELSE [setStyle(mv, mv.highlightedRoute.key, mv.highlightedRoute.originalStyle)
            EXCEPT !.highlightedRoute = Null]

\* originalStyle.weight + 2
weightPlusTwo(weight) ==
    IF weight.t = "num" THEN Num(weight.v + 2 * Scale) ELSE NaN

\* highlightRoute(routeId) (lines 870-905)
highlightRoute(mv, routeId) ==
    LET Highlight(cleared, i) ==
            IF i = 0 THEN cleared
            ELSE [setStyle(cleared, cleared.activeLayers[i].key,
                           [color |-> HighlightColor,
                            weight |->
                                weightPlusTwo(cleared.activeLayers[i].layer.weight),
                            opacity |-> Num(Scale)])
                    EXCEPT !.highlightedRoute =
                        [t |-> "obj",
                         key |-> cleared.activeLayers[i].key,
                         originalStyle |-> styleOf(cleared.activeLayers[i].layer),
                         routeId |-> routeId]]
    IN Highlight(clearHighlight(mv), findRouteLayer(clearHighlight(mv), routeId))

\* the test !geometry || geometry.length === 0 of the three views, negated
hasGeometry(mv, route) ==
    /\ route.Route \in DOMAIN mv.routeGeometries
    /\ mv.routeGeometries[route.Route] # <<>>

\* the options of the polyline of one route in the delay view (lines 574-579)
delayLayer(mv, route) ==
    [key |-> route.Route,
     layer |-> [route |-> route.Route,
                color |-> colorScale(mv, "delay", route.Avg_Delay_Min.v),
                weight |-> config.routeDelay.weight,
                opacity |-> config.routeDelay.opacity]]

\* showRouteDelays(filteredRoutes): the visualizer afterwards and whether the
\* call throws; this.showError is not a method of MapVisualizer, so calling it
\* is a TypeError; legendFails: createDelayLegend throws
showRouteDelays(mv, filteredRoutes, legendFails) ==
    LET Drawn(cleared, shown) ==
            addLayers(cleared, [i \in DOMAIN shown |-> delayLayer(cleared, shown[i])])
        Draw(cleared, routesToShow) ==
            IF routesToShow = <<>> \/ DOMAIN cleared.routeGeometries = {}
            THEN [mapVisualizer |-> cleared, completion |-> Throw]
            ELSE IF legendFails
            THEN [mapVisualizer |->
                      Drawn(cleared,
                            FilterSeq(LAMBDA route : hasGeometry(cleared, route),
                                      routesToShow)),
                  completion |-> Throw]
            ELSE [mapVisualizer |->
                      [Drawn(cleared,
                             FilterSeq(LAMBDA route : hasGeometry(cleared, route),
                                       routesToShow))
                          EXCEPT !.legend = "delay"],
                  completion |-> Value(Null)]
    IN Draw([clearVisualization(mv) EXCEPT !.currentVisualization = "delay"],
            IF filteredRoutes # <<>> THEN filteredRoutes ELSE mv.routes)

\* the options of the polyline addComparisonRoute(route, type) adds
comparisonLayer(route, type) ==
    [key |-> type \o <<"_">> \o route.Route,
     layer |-> [route |-> route.Route,
                color |-> config.comparison[IF type = T.highDelay THEN "highDelay"
                                            ELSE "lowDelay"].color,
                weight |-> config.comparison[IF type = T.highDelay THEN "highDelay"
                                             ELSE "lowDelay"].weight,
                opacity |-> config.comparison[IF type = T.highDelay THEN "highDelay"
                                              ELSE "lowDelay"].opacity]]

\* showRouteComparison(filteredRoutes) (lines 603-641); legendFails:
\* createComparisonLegend throws
showRouteComparison(mv, filteredRoutes, legendFails) ==
    LET Layers(shown, type) ==
            [i \in DOMAIN shown |-> comparisonLayer(shown[i], type)]
        Entries(cleared, routes, type) ==
            Layers(FilterSeq(LAMBDA route : hasGeometry(cleared, route), routes), type)
        topDelayed(routesToShow) == slice(sort(routesToShow, "Avg_Delay_Min", -1), 10)
        leastDelayed(routesToShow) ==
            slice(sort(FilterSeq(LAMBDA route : route.Delay_Count.v > 10 * Scale,
                                 routesToShow),
                       "Avg_Delay_Min", 1), 10)
        Drawn(cleared, routesToShow) ==
            addLayers(addLayers(cleared,
                                Entries(cleared, topDelayed(routesToShow), T.highDelay)),
                      Entries(cleared, leastDelayed(routesToShow), T.lowDelay))
        Draw(cleared, routesToShow) ==
            IF legendFails
            THEN [mapVisualizer |-> Drawn(cleared, routesToShow), completion |-> Throw]
            ELSE [mapVisualizer |->
                      [Drawn(cleared, routesToShow) EXCEPT !.legend = "comparison"],
                  completion |-> Value(Null)]
    IN Draw([clearVisualization(mv) EXCEPT !.currentVisualization = "comparison"],
            filteredRoutes)

\* the weight of the line of a route in the frequency view (lines 702-705),
\* to the thousandth; 0 / 0 is NaN
frequencyWeight(delayCount, minFrequency, maxFrequency) ==
    IF maxFrequency = minFrequency
    THEN NaN
    ELSE Num(config.frequency.minWeight
             + ((delayCount - minFrequency)
                * (config.frequency.maxWeight - config.frequency.minWeight))
               \div (maxFrequency - minFrequency))

\* the options of the polyline of one route in the frequency view
frequencyLayer(mv, route, minFrequency, maxFrequency) ==
    [key |-> route.Route,
     layer |-> [route |-> route.Route,
                color |-> colorScale(mv, "frequency", route.Delay_Count.v),
                weight |-> frequencyWeight(route.Delay_Count.v, minFrequency,
                                           maxFrequency),
                opacity |-> Num(700)]]

\* showDelayFrequency(filteredRoutes) (lines 676-737); legendFails:
\* createFrequencyLegend throws
showDelayFrequency(mv, filteredRoutes, legendFails) ==
    LET Counts(routes) == [i \in DOMAIN routes |-> routes[i].Delay_Count.v]
        Entries(cleared, shown, minFrequency, maxFrequency) ==
            [i \in DOMAIN shown |->
                frequencyLayer(cleared, shown[i], minFrequency, maxFrequency)]
        Drawn(cleared, routesToShow) ==
            IF routesToShow = <<>> THEN cleared
            ELSE addLayers(cleared,
                           Entries(cleared,
                                   FilterSeq(LAMBDA route : hasGeometry(cleared, route),
                                             routesToShow),
                                   MathMin(Counts(routesToShow)),
                                   MathMax(Counts(routesToShow))))
        Draw(cleared, routesToShow) ==
            IF legendFails
            THEN [mapVisualizer |-> Drawn(cleared, routesToShow), completion |-> Throw]
            ELSE [mapVisualizer |->
                      [Drawn(cleared, routesToShow) EXCEPT !.legend = "frequency"],
                  completion |-> Value(Null)]
    IN Draw([clearVisualization(mv) EXCEPT !.currentVisualization = "frequency"],
            filteredRoutes)

(***************************************************************************)
(* TTCVisualizationApp: the state and the filter engine                    *)
(***************************************************************************)
\* lastLoad when nothing has been called yet
NoLoad == [op |-> "none"]

\* the state the constructor builds (lines 12-25)
ConstructedState ==
    [routes |-> <<>>, routeGeometries |-> EmptyMap, locationAnalysis |-> <<>>,
     summaryStats |-> EmptyMap, filteredRoutes |-> <<>>, searchQuery |-> <<>>,
     filters |-> [delayThreshold |-> Num(10 * Scale), routeType |-> "all"]]

\* the fields of the application outside state and the page: the view that
\* is selected (line 8), the overlay of showLoadingState, the notifications
\* on the page, and how far init() has come
ConstructedApp ==
    [currentVisualization |-> "delay", loadingOverlay |-> FALSE,
     notifications |-> {}, phase |-> "constructed"]

NoTimer == "none"
PendingTimer == "pending"

UpperCase == <<"A", "B", "C", "D", "E", "F", "G", "H", "I", "J", "K", "L", "M",
               "N", "O", "P", "Q", "R", "S", "T", "U", "V", "W", "X", "Y", "Z">>
LowerCase == <<"a", "b", "c", "d", "e", "f", "g", "h", "i", "j", "k", "l", "m",
               "n", "o", "p", "q", "r", "s", "t", "u", "v", "w", "x", "y", "z">>

\* String.prototype.toLowerCase, on the letters A-Z
LowerChar(c) ==
    IF c \in Range(UpperCase)
    THEN LowerCase[CHOOSE i \in DOMAIN UpperCase : UpperCase[i] = c]
    ELSE c
\* toLowerCase that leaves every character as it is
toLowerCase_Same(s) == s
toLowerCase(s) == [i \in DOMAIN s |-> LowerChar(s[i])]

\* String.prototype.includes
includes(s, q) ==
    \E i \in 1..(Len(s) - Len(q) + 1) : SubSeq(s, i, i + Len(q) - 1) = q

\* the predicate of the search filter of lines 266-269
MatchesQuery(route, query) ==
    \/ includes(toLowerCase(route.Route), query)
    \/ /\ route.route_long_name # <<>>
       /\ includes(toLowerCase(route.route_long_name), query)

\* the predicate of the threshold filter of lines 254-256
MeetsThreshold(route, threshold) == GreaterEq(route.Avg_Delay_Min, threshold)

\* filterRoutes giving the routes that pass in the opposite order
filterRoutes_Reversed(st) ==
    LET byDelay == FilterSeq(LAMBDA route :
                                MeetsThreshold(route, st.filters.delayThreshold),
                             st.routes)
        query == toLowerCase(st.searchQuery)
        found == IF st.searchQuery # <<>>
                 THEN FilterSeq(LAMBDA route : MatchesQuery(route, query), byDelay)
                 ELSE byDelay
    IN [i \in DOMAIN found |-> found[Len(found) + 1 - i]]

\* filterRoutes() on the state st
filterRoutes(st) ==
    LET byDelay == FilterSeq(LAMBDA route :
                                MeetsThreshold(route, st.filters.delayThreshold),
                             st.routes)
        query == toLowerCase(st.searchQuery)
    IN IF st.searchQuery # <<>>
       THEN FilterSeq(LAMBDA route : MatchesQuery(route, query), byDelay)
       ELSE byDelay

\* the library call of switchVisualization that throws, if one does
Faults == {"none", "updateVisualizationToggles", "createLegend"}

\* switchVisualization with hideLoadingState() as the last statement of the
\* try block instead of a finally block
switchVisualization_NoFinally(st, mv, a, visualType, fault) ==
    LET Show(cleared) ==
            CASE visualType = "comparison" ->
                    showRouteComparison(cleared, st.filteredRoutes, fault = "createLegend")
              [] visualType = "frequency" ->
                    showDelayFrequency(cleared, st.filteredRoutes, fault = "createLegend")
              [] OTHER ->
                    showRouteDelays(cleared, st.filteredRoutes, fault = "createLegend")
        Try == IF fault = "updateVisualizationToggles"
               THEN [mapVisualizer |-> mv, completion |-> Throw,
                     loadingOverlay |-> a.loadingOverlay]
               ELSE Show(clearVisualization(mv)) @@ [loadingOverlay |-> TRUE]
        Catch_(notifications, threw) ==
            IF threw
            THEN notifications \cup {[type |-> "error", failed |-> "switchVisualization"]}
            ELSE notifications
        Finally(tried) ==
            [mapVisualizer |-> tried.mapVisualizer,
             app |-> [a EXCEPT !.currentVisualization = visualType,
                               !.loadingOverlay = IF tried.completion = Throw
                                                   THEN tried.loadingOverlay
                                                   ELSE FALSE,
                               !.notifications = Catch_(@, tried.completion = Throw)],
             call |-> [op |-> "switchVisualization", visualType |-> visualType,
                       threw |-> tried.completion = Throw,
                       completion |-> Value(Undefined)]]
    IN Finally(Try)

\* switchVisualization(visualType) (lines 205-248): the visualizer and the
\* application afterwards, and in call what the call did
switchVisualization(st, mv, a, visualType, fault) ==
    LET Show(cleared) ==
            CASE visualType = "comparison" ->
                    showRouteComparison(cleared, st.filteredRoutes, fault = "createLegend")
              [] visualType = "frequency" ->
                    showDelayFrequency(cleared, st.filteredRoutes, fault = "createLegend")
              [] OTHER ->
                    showRouteDelays(cleared, st.filteredRoutes, fault = "createLegend")
        Try == IF fault = "updateVisualizationToggles"
               THEN [mapVisualizer |-> mv, completion |-> Throw,
                     loadingOverlay |-> a.loadingOverlay]
               ELSE Show(clearVisualization(mv)) @@ [loadingOverlay |-> TRUE]
        Catch_(notifications, threw) ==
            IF threw
            THEN notifications \cup {[type |-> "error", failed |-> "switchVisualization"]}
            ELSE notifications
        Finally(tried) ==
            [mapVisualizer |-> tried.mapVisualizer,
             app |-> [a EXCEPT !.currentVisualization = visualType,
                               !.loadingOverlay = FALSE,
                               !.notifications = Catch_(@, tried.completion = Throw)],
             call |-> [op |-> "switchVisualization", visualType |-> visualType,
                       threw |-> tried.completion = Throw,
                       completion |-> Value(Undefined)]]
    IN Finally(Try)

\* performSearch() (lines 285-298)
performSearch(st, mv, a, fault) ==
    LET Searched(found) ==
            IF found.searchQuery # <<>>
            THEN [state |-> found]
                 @@ switchVisualization(found, mv, a, a.currentVisualization, fault)
            ELSE [state |-> found, mapVisualizer |-> mv, app |-> a, call |-> NoLoad]
    IN Searched([st EXCEPT !.filteredRoutes = filterRoutes(st)])

\* updateDelayFilter(value) (lines 300-307) and updateRouteTypeFilter(value)
\* (lines 309-315): filter is the name of the filter the call sets
updateFilter(st, mv, a, filter, value, fault) ==
    LET Filtered(found) ==
            [state |-> found]
            @@ switchVisualization(found, mv, a, a.currentVisualization, fault)
        Set(changed) == Filtered([changed EXCEPT !.filteredRoutes = filterRoutes(changed)])
    IN Set([st EXCEPT !.filters[filter] = value])

\* a handler leaves the application as the record w tells
Becomes(w) ==
    /\ state' = w.state
    /\ mapVisualizer' = w.mapVisualizer
    /\ app' = w.app
    /\ lastLoad' = w.call

\* the input event of the search box: handleSearch(query)
HandleSearch(query) ==
    /\ app.phase = "ready"
    /\ state' = [state EXCEPT !.searchQuery = query]
    /\ searchTimeout' = PendingTimer
    /\ UNCHANGED <<csvText, csvResult, files, cache, now, lastLoad, mapVisualizer, app>>

\* the debounce timer of handleSearch expires
SearchTimeoutFires(fault) ==
    /\ searchTimeout = PendingTimer
    /\ Becomes(performSearch(state, mapVisualizer, app, fault))
    /\ searchTimeout' = NoTimer
    /\ UNCHANGED <<csvText, csvResult, files, cache, now>>

\* the Enter key in the search box
KeypressEnter(fault) ==
    /\ app.phase = "ready"
    /\ Becomes(performSearch(state, mapVisualizer, app, fault))
    /\ UNCHANGED <<csvText, csvResult, files, cache, now, searchTimeout>>

\* the delay slider: updateDelayFilter(value)
UpdateDelayFilter(value, fault) ==
    /\ app.phase = "ready"
    /\ Becomes(updateFilter(state, mapVisualizer, app, "delayThreshold", value, fault))
    /\ UNCHANGED <<csvText, csvResult, files, cache, now, searchTimeout>>

\* the route type selector: updateRouteTypeFilter(value)
UpdateRouteTypeFilter(value, fault) ==
    /\ app.phase = "ready"
    /\ Becomes(updateFilter(state, mapVisualizer, app, "routeType", value, fault))
    /\ UNCHANGED <<csvText, csvResult, files, cache, now, searchTimeout>>

\* a click on a button of the view toggle (lines 136-141)
SwitchVisualization(visualType, fault) ==
    /\ app.phase = "ready"
    /\ Becomes([state |-> state]
               @@ switchVisualization(state, mapVisualizer, app, visualType, fault))
    /\ UNCHANGED <<csvText, csvResult, files, cache, now, searchTimeout>>

(***************************************************************************)
(* TTCVisualizationApp.init: loadData and what follows it                  *)
(***************************************************************************)
Loaders == {"loadRoutePerformance", "loadRouteGeometries", "loadLocationAnalysis",
            "loadSummaryStatistics"}

\* init() calls loadData(), which starts the four loads (lines 67-72)
StartLoadData ==
    /\ app.phase = "constructed"
    /\ app' = [app EXCEPT !.phase = "loading"]
    /\ lastLoad' = [op |-> "loadData",
                    settled |-> [loader \in Loaders |-> Pending],
                    net |-> [loader \in Loaders |-> "none"]]
    /\ UNCHANGED <<csvText, csvResult, files, cache, now, state, searchTimeout,
                   mapVisualizer>>

\* the promise of one of the four loads settles; net is what its request
\* met, seed the random draws of the sample geometries
Settle(loader, net, seed) ==
    /\ app.phase = "loading"
    /\ lastLoad.settled[loader] = Pending
    /\ LET Settled(r) ==
               /\ cache' = r.cache
               /\ lastLoad' = [lastLoad EXCEPT !.settled[loader] = r.completion,
                                               !.net[loader] = net]
       IN Settled(CASE loader = "loadRoutePerformance" -> loadRoutePerformance(net)
                    [] loader = "loadRouteGeometries" -> loadRouteGeometries(net, seed)
                    [] loader = "loadLocationAnalysis" -> loadLocationAnalysis(net)
                    [] OTHER -> loadSummaryStatistics(net))
    /\ UNCHANGED <<csvText, csvResult, files, now, state, searchTimeout,
                   mapVisualizer, app>>

\* the assignments of lines 74-78
loadData(st, settled) ==
    LET Filtered(loaded) == [loaded EXCEPT !.filteredRoutes = filterRoutes(loaded)]
    IN Filtered([st EXCEPT
                    !.routes = settled["loadRoutePerformance"].value,
                    !.routeGeometries = settled["loadRouteGeometries"].value,
                    !.locationAnalysis = settled["loadLocationAnalysis"].value,
                    !.summaryStats = settled["loadSummaryStatistics"].value])

\* Promise.all settles and loadData goes on: it stores the four results, or
\* rethrows to init(), whose catch reports the failure (lines 55-58, 81-84)
CompleteLoadData ==
    /\ app.phase = "loading"
    /\ \/ \A loader \in Loaders : lastLoad.settled[loader] # Pending
       \/ \E loader \in Loaders : lastLoad.settled[loader] = Throw
    /\ IF \E loader \in Loaders : lastLoad.settled[loader] = Throw
       THEN /\ app' = [app EXCEPT !.phase = "failed",
                                  !.notifications =
                                      @ \cup {[type |-> "error", failed |-> "init"]}]
            /\ UNCHANGED state
       ELSE /\ app' = [app EXCEPT !.phase = "loaded"]
            /\ state' = loadData(state, lastLoad.settled)
    /\ UNCHANGED <<csvText, csvResult, files, cache, now, lastLoad, searchTimeout,
                   mapVisualizer>>

\* updateMetrics(summaryStats) throws a TypeError when the average delay or
\* the coverage is not a number: it calls toFixed on it (app.js 591-594)
updateMetricsThrows(summaryStats) ==
    \/ summaryStats.avg_delay_min.t # "num"
    \/ summaryStats.coverage_percentage.t # "num"

\* updateUI() (lines 354-369): state.routes.sort(...) sorts the array of
\* state.routes itself, which is also the array of mapVisualizer.routes
updateUI(w) ==
    IF updateMetricsThrows(w.state.summaryStats)
    THEN [w EXCEPT !.app.notifications = @ \cup {[type |-> "error", failed |-> "init"]}]
    ELSE [w EXCEPT !.state.routes = sort(@, "Avg_Delay_Min", -1),
                   !.mapVisualizer.routes = sort(@, "Avg_Delay_Min", -1)]

\* the rest of init() (lines 43-52): initializeMap() hands the loaded data to
\* the visualizer and shows the first view, setupEventListeners() makes the
\* handlers live, updateUI() fills the panels
FinishInit(fault) ==
    /\ app.phase = "loaded"
    /\ Becomes(updateUI([state |-> state]
                        @@ switchVisualization(
                               state,
                               init(mapVisualizer, state.routeGeometries, state.routes),
                               [app EXCEPT !.phase = "ready"],
                               app.currentVisualization, fault)))
    /\ UNCHANGED <<csvText, csvResult, files, cache, now, searchTimeout>>

\* a notification leaves the page when its time is over (app.js 975-1007)
NotificationExpires ==
    /\ \E n \in app.notifications :
          app' = [app EXCEPT !.notifications = @ \ {n}]
    /\ UNCHANGED <<csvText, csvResult, files, cache, now, lastLoad, state,
                   searchTimeout, mapVisualizer>>

(***************************************************************************)
(* The files the server may hold                                           *)
(***************************************************************************)
RECURSIVE SeqsUpTo(_, _)
SeqsUpTo(S, n) ==
    IF n = 0 THEN {<<>>}
    ELSE LET shorter == SeqsUpTo(S, n - 1)
         IN shorter \cup {Append(s, x) : s \in shorter, x \in S}

RECURSIVE Join(_, _)
Join(parts, sep) ==
    IF parts = <<>> THEN <<>>
    ELSE IF Len(parts) = 1 THEN parts[1]
    ELSE parts[1] \o <<sep>> \o Join(Tail(parts), sep)

\* the sequences of at most n rows whose k-th row is one of Rows(k)
RECURSIVE RowSeqs(_, _)
RowSeqs(Rows(_), n) ==
    IF n = 0 THEN {<<>>}
    ELSE LET shorter == RowSeqs(Rows, n - 1)
         IN shorter \cup {Append(s, x) : s \in {t \in shorter : Len(t) = n - 1},
                                         x \in Rows(n)}

\* route_performance.csv: a header and up to MaxRows rows; the k-th row
\* carries the route id k, or none
RouteHeader == Join(<<K.Route, K.Avg_Delay_Min, K.Delay_Count>>, Comma)
RowId(k) == NatToString(k)
RouteRowTexts(k) ==
    {Join(<<r, a, c>>, Comma) : r \in {RowId(k), <<>>},
                                a \in {<<"8", ".", "5">>, <<>>, <<"x">>},
                                c \in {<<"5">>, <<>>}}
RouteFiles ==
    {<<>>} \cup {Join(<<RouteHeader>> \o rows, LF) :
                    rows \in RowSeqs(RouteRowTexts, MaxRows)}
ValidRouteFile == Join(<<RouteHeader, <<"7", ",", "8", ".", "5", ",", "5">> >>, LF)

\* location_analysis.csv: a header and up to MaxRows rows; the k-th row
\* carries the location id k
LocationHeader == Join(<<K.location_id, K.latitude, K.longitude, K.peak_hours>>, Comma)
LocationRowTexts(k) ==
    {Join(<<RowId(k), la, <<"-", "7", "9", ".", "3">>, p>>, Comma) :
        la \in {<<"4", "3", ".", "6">>, <<>>, <<"9", "1">>},
        p \in {<<>>, <<"[", "7", "]">>, <<"[", "7">>}}
LocationFiles ==
    {<<>>} \cup {Join(<<LocationHeader>> \o rows, LF) :
                    rows \in RowSeqs(LocationRowTexts, MaxRows)}
ValidLocationFile ==
    Join(<<LocationHeader,
           <<"A", ",", "4", "3", ".", "6", ",", "-", "7", "9", ".", "3", ",", "[", "7", "]">> >>, LF)

\* route_geometries.json, decoded: an object of route id -> coordinate list
GoodPair == Arr(<<Num(43653), Num(-79383)>>)
CoordPool ==
    { GoodPair,
      Arr(<<Num(90 * Scale), Num(-180 * Scale)>>),
      Arr(<<Num(91 * Scale), Num(0)>>),
      Arr(<<Num(0), Num(-181 * Scale)>>),
      Arr(<<Null, Num(0)>>),
      Arr(<<Str(<<"4", "5">>), Str(<<"1", "0">>)>>),
      Arr(<<Num(Scale), Num(2 * Scale), Num(3 * Scale)>>),
      Null }
CoordinateValues ==
    {Arr(a) : a \in SeqsUpTo(CoordPool, MaxCoords)} \cup {Null, Num(Scale)}
PaddedKey == <<" ">> \o T.id501        \* cleanRouteId makes it "501"
ValidGeometryFile == Obj(<< <<T.id504, Arr(<<GoodPair>>)>> >>)
GeometryFiles ==
    {Malformed, Null, Num(Scale), Obj(<<>>)}
    \cup {Obj(<< <<PaddedKey, v>> >>) : v \in CoordinateValues}
    \cup {Obj(<< <<T.id504, Arr(<<GoodPair>>)>>, <<PaddedKey, v>> >>) :
            v \in CoordinateValues}

\* summary_statistics.json, decoded
ValidStatsFile ==
    Obj(<< <<K.total_delays, Num(100 * Scale)>>,
           <<K.avg_delay_minutes, Num(5200)>>,
           <<K.unique_routes, Num(12 * Scale)>>,
           <<K.peak_delay_hour, Str(<<"1", "7", ":", "0", "0">>)>> >>)

ValidFiles ==
    (F_routes :> ValidRouteFile) @@ (F_geometries :> ValidGeometryFile)
    @@ (F_locations :> ValidLocationFile) @@ (F_statistics :> ValidStatsFile)

\* the loader right after construction, given the files of the server
InitLoader(f) ==
    /\ files = f
    /\ cache = EmptyCache
    /\ now = 0
    /\ lastLoad = NoLoad
    /\ csvText = <<>>
    /\ csvResult = Pending
    /\ state = ConstructedState
    /\ searchTimeout = NoTimer
    /\ mapVisualizer = ConstructedVisualizer
    /\ app = ConstructedApp

(***************************************************************************)
(* Specifications                                                          *)
(***************************************************************************)
\* the parser alone, on every text up to MaxLen characters
CsvTexts == SeqsUpTo({"a", "b", Comma, LF, " "}, MaxLen)

InitCSV ==
    /\ csvText \in CsvTexts
    /\ csvResult = Pending
    /\ files = ValidFiles
    /\ cache = EmptyCache
    /\ now = 0
    /\ lastLoad = NoLoad
    /\ state = ConstructedState
    /\ searchTimeout = NoTimer
    /\ mapVisualizer = ConstructedVisualizer
    /\ app = ConstructedApp

ParseCSV ==
    /\ csvResult = Pending
    /\ csvResult' = Value(parseCSV(csvText))
    /\ UNCHANGED <<csvText, files, cache, now, lastLoad, state, searchTimeout, mapVisualizer, app>>

NextCSV == ParseCSV

SpecCSV == InitCSV /\ [][NextCSV]_vars

\* route performance, over every generated route_performance.csv
InitRoutes == \E f \in RouteFiles : InitLoader([ValidFiles EXCEPT ![F_routes] = f])
NextRoutes == LoadRoutePerformance \/ Tick
SpecRoutes == InitRoutes /\ [][NextRoutes]_vars

\* route geometries, over every generated route_geometries.json
InitGeometries ==
    \E f \in GeometryFiles : InitLoader([ValidFiles EXCEPT ![F_geometries] = f])
NextGeometries == LoadRouteGeometries \/ Tick
SpecGeometries == InitGeometries /\ [][NextGeometries]_vars

\* location analysis, over every generated location_analysis.csv
InitLocations ==
    \E f \in LocationFiles : InitLoader([ValidFiles EXCEPT ![F_locations] = f])
NextLocations == LoadLocationAnalysis \/ Tick
SpecLocations == InitLocations /\ [][NextLocations]_vars

\* the four load operations together, on valid files and on files that are
\* unusable in each of the ways a file can be
EmptyText == <<>>
AllInvalidRouteFile == Join(<<RouteHeader, <<"7", ",", "x", ",", "5">> >>, LF)
AllInvalidGeometryFile ==
    Obj(<< <<T.id501, Arr(<<Arr(<<Num(91 * Scale), Num(0)>>)>>)>> >>)
BadPeakLocationFile ==
    Join(<<LocationHeader,
           <<"A", ",", "4", "3", ".", "6", ",", "-", "7", "9", ".", "3", ",", "[", "7">> >>, LF)
AllInvalidLocationFile ==
    Join(<<LocationHeader, <<"A", ",", ",", "-", "7", "9", ".", "3", ",">> >>, LF)

\* the k-th way for every file to be unusable
UnusableFiles ==
    LET routes == <<EmptyText, RouteHeader, AllInvalidRouteFile, <<"x">> >>
        geometries == <<Malformed, Null, Obj(<<>>), AllInvalidGeometryFile>>
        locations ==
            <<EmptyText, LocationHeader, BadPeakLocationFile, AllInvalidLocationFile>>
        statistics == <<Malformed, Null, Obj(<<>>), Arr(<<>>)>>
    IN {(F_routes :> routes[k]) @@ (F_geometries :> geometries[k])
        @@ (F_locations :> locations[k]) @@ (F_statistics :> statistics[k]) :
           k \in 1..4}

InitLoad == \E f \in UnusableFiles \cup {ValidFiles} : InitLoader(f)
NextLoad ==
    \/ LoadRoutePerformance
    \/ LoadRouteGeometries
    \/ LoadLocationAnalysis
    \/ LoadSummaryStatistics
    \/ Tick
SpecLoad == InitLoad /\ [][NextLoad]_vars

\* the filter engine, over every generated state.routes
Route(id, name, avg) ==
    [Route |-> id, route_long_name |-> name, Avg_Delay_Min |-> Num(avg),
     Delay_Count |-> Num(5 * Scale), Total_Delay_Min |-> Null,
     On_Time_Percentage |-> Null, Delay_Frequency |-> Null]
RoutePool ==
    { Route(<<"5">>, <<"A", "b">>, 8500),
      Route(<<"1", "5">>, <<"B", "a">>, 10 * Scale),
      Route(<<"2", "B">>, <<"C">>, 12300) }
Queries == SeqsUpTo({"a", "B"}, MaxQuery)
Thresholds == {Num(0), Num(10 * Scale), Num(13 * Scale)}
RouteTypes == {"bus"}
NoFaults == {"none"}         \* the library calls of the views all succeed

\* loadData has stored the routes and computed filteredRoutes (lines 74-78)
InitFilter ==
    /\ \E routes \in SeqsUpTo(RoutePool, MaxRoutes) \ {<<>>} :
          /\ state = [ConstructedState EXCEPT
                         !.routes = routes,
                         !.routeGeometries =
                             processGeometries(ValidGeometryFile.e, EmptyMap),
                         !.filteredRoutes =
                             filterRoutes([ConstructedState EXCEPT !.routes = routes])]
          /\ mapVisualizer = [init(ConstructedVisualizer,
                                   processGeometries(ValidGeometryFile.e, EmptyMap),
                                   routes)
                                 EXCEPT !.currentVisualization = "delay",
                                        !.legend = "delay"]
    /\ searchTimeout = NoTimer
    /\ app = [ConstructedApp EXCEPT !.phase = "ready"]
    /\ files = ValidFiles
    /\ cache = EmptyCache
    /\ now = 0
    /\ lastLoad = NoLoad
    /\ csvText = <<>>
    /\ csvResult = Pending

NextFilter ==
    \/ \E query \in Queries : HandleSearch(query)
    \/ \E fault \in NoFaults : SearchTimeoutFires(fault)
    \/ \E fault \in NoFaults : KeypressEnter(fault)
    \/ \E value \in Thresholds, fault \in NoFaults : UpdateDelayFilter(value, fault)
    \/ \E value \in RouteTypes, fault \in NoFaults :
          UpdateRouteTypeFilter(value, fault)
SpecFilter == InitFilter /\ [][NextFilter]_vars

\* fetchCSV and fetchJSON called again and again while time passes and the
\* server replaces its files
InitCache == InitLoader(ValidFiles)
NextCache ==
    \/ \E net \in NetOutcomes : FetchCSV(F_routes, net)
    \/ \E net \in NetOutcomes : FetchJSON(F_statistics, net)
    \/ \E instant \in Instants : Elapse(instant)
    \/ \E body \in {ValidRouteFile, <<>>} : ServerUpdates(F_routes, body)
    \/ \E body \in {ValidStatsFile, Obj(<<>>)} : ServerUpdates(F_statistics, body)
SpecCache == InitCache /\ [][NextCache]_vars

\* the application from its construction on: init(), then the handlers
AscendingRouteFile ==
    Join(<<RouteHeader,
           <<"5", "0", "4", ",", "8", ".", "5", ",", "5">>,
           <<"5", "0", "1", ",", "1", "2", ".", "3", ",", "2", "0">> >>, LF)
AppGeometryFile ==
    Obj(<< <<T.id504, Arr(<<GoodPair>>)>>, <<PaddedKey, Arr(<<GoodPair>>)>> >>)
TextAverageStatsFile ==
    Obj(<< <<K.avg_delay_minutes, Str(<<"5", ".", "2">>)>> >>)
AppFiles ==
    {[ValidFiles EXCEPT ![F_routes] = AscendingRouteFile,
                        ![F_geometries] = AppGeometryFile,
                        ![F_statistics] = s] :
        s \in {ValidStatsFile, TextAverageStatsFile}}
VisualTypes == {"delay", "comparison", "frequency", "heatmap"}

InitApp == \E f \in AppFiles : InitLoader(f)
NextApp ==
    \/ StartLoadData
    \/ \E loader \in Loaders, net \in NetOutcomes, seed \in RandomSeeds :
          Settle(loader, net, seed)
    \/ CompleteLoadData
    \/ \E fault \in Faults : FinishInit(fault)
    \/ \E visualType \in VisualTypes, fault \in Faults :
          SwitchVisualization(visualType, fault)
    \/ NotificationExpires
SpecApp == InitApp /\ [][NextApp]_vars

\* ---- the colours and the line weights of the views ----
\* route_geometries.json with a line for four of the routes
StyleGeometryFile ==
    Obj(<< <<T.id501, Arr(<<GoodPair>>)>>, <<T.id504, Arr(<<GoodPair>>)>>,
           <<T.id505, Arr(<<GoodPair>>)>>, <<T.id506, Arr(<<GoodPair>>)>> >>)

\* the records loadRoutePerformance may return: the sample routes, one
\* route, two routes with equal and with different counts
StyleRoute(id, avg, count) ==
    [Route(id, <<"A">>, avg) EXCEPT !.Delay_Count = Num(count * Scale)]
StyleRoutes ==
    {getSampleRoutePerformance}
    \cup {<<StyleRoute(T.id501, avg, count)>> : avg \in {0, 4300, 15200},
                                               count \in {0, 98}}
    \cup {<<StyleRoute(T.id501, 4300, 98), StyleRoute(T.id504, 15200, count)>> :
            count \in {98, 278}}
StyleValues == {0, 4300, 15200, 20 * Scale, 98 * Scale, 278 * Scale}
StyleViews == {"delay", "frequency"}

\* the application is running with the delay view on the map
Running(routes) ==
          /\ state = [ConstructedState EXCEPT
                         !.routes = routes,
                         !.routeGeometries =
                             processGeometries(StyleGeometryFile.e, EmptyMap),
                         !.filteredRoutes =
                             filterRoutes([ConstructedState EXCEPT !.routes = routes])]
          /\ mapVisualizer =
                switchVisualization(
                    state,
                    init(ConstructedVisualizer,
                         processGeometries(StyleGeometryFile.e, EmptyMap), routes),
                    ConstructedApp, "delay", "none").mapVisualizer
InitStyle ==
    /\ \E routes \in StyleRoutes : Running(routes)
    /\ searchTimeout = NoTimer
    /\ app = [ConstructedApp EXCEPT !.phase = "ready"]
    /\ files = ValidFiles
    /\ cache = EmptyCache
    /\ now = 0
    /\ lastLoad = NoLoad
    /\ csvText = <<>>
    /\ csvResult = Pending

\* a view asks a colour scale for the colour of a value:
\* this.colorScales.get(name)(value)
ColorFor(name, value) ==
    /\ app.phase = "ready"
    /\ lastLoad' = [op |-> "colorScale", name |-> name, value |-> value,
                    color |-> colorScale(mapVisualizer, name, value)]
    /\ UNCHANGED <<csvText, csvResult, files, cache, now, state, searchTimeout,
                   mapVisualizer, app>>

NextStyle ==
    \/ \E name \in StyleViews, value \in StyleValues : ColorFor(name, value)
    \/ \E value \in Thresholds, fault \in NoFaults : UpdateDelayFilter(value, fault)
    \/ \E visualType \in StyleViews, fault \in NoFaults :
          SwitchVisualization(visualType, fault)
SpecStyle == InitStyle /\ [][NextStyle]_vars

\* ---- the search box, the slider and the view toggle with routes on the map ----
NextSearch ==
    \/ \E query \in Queries : HandleSearch(query)
    \/ \E fault \in NoFaults : SearchTimeoutFires(fault)
    \/ \E fault \in NoFaults : KeypressEnter(fault)
    \/ \E value \in Thresholds, fault \in NoFaults : UpdateDelayFilter(value, fault)
    \/ \E visualType \in StyleViews, fault \in NoFaults :
          SwitchVisualization(visualType, fault)
SpecSearch == InitStyle /\ [][NextSearch]_vars

\* ---- the lines of the views, over route files that may repeat a route id ----
LayerPool ==
    {StyleRoute(T.id501, 4300, 98), StyleRoute(T.id501, 15200, 278),
     StyleRoute(T.id504, 12300, 20)}
InitLayers ==
    /\ \E routes \in SeqsUpTo(LayerPool, MaxRoutes) \ {<<>>} : Running(routes)
    /\ searchTimeout = NoTimer
    /\ app = [ConstructedApp EXCEPT !.phase = "ready"]
    /\ files = ValidFiles
    /\ cache = EmptyCache
    /\ now = 0
    /\ lastLoad = NoLoad
    /\ csvText = <<>>
    /\ csvResult = Pending
\* a click on a view button, while few lines are left over on the map
Redraw(visualType) ==
    /\ Len(mapVisualizer.untracked) < MaxUntracked
    /\ SwitchVisualization(visualType, "none")
\* a move of the delay slider, while few lines are left over on the map
Refilter(value) ==
    /\ Len(mapVisualizer.untracked) < MaxUntracked
    /\ UpdateDelayFilter(value, "none")
NextLayers ==
    \/ \E visualType \in VisualTypes : Redraw(visualType)
    \/ \E value \in Thresholds : Refilter(value)
SpecLayers == InitLayers /\ [][NextLayers]_vars

\* ---- highlighting the lines of the map ----
HighlightIds == {T.id501, T.id504, <<"9">>}
\* a click on a line or a selection of its route: highlightRoute(routeId)
\* (dataLoader.js 855-868, app.js 515-522)
HighlightRoute(routeId) ==
    /\ app.phase = "ready"
    /\ mapVisualizer' = highlightRoute(mapVisualizer, routeId)
    /\ UNCHANGED <<csvText, csvResult, files, cache, now, lastLoad, state,
                   searchTimeout, app>>
\* clearSelection() (app.js 525-531): clearHighlight()
ClearHighlight ==
    /\ app.phase = "ready"
    /\ mapVisualizer' = clearHighlight(mapVisualizer)
    /\ UNCHANGED <<csvText, csvResult, files, cache, now, lastLoad, state,
                   searchTimeout, app>>
\* clearVisualization() on its own
ClearVisualization ==
    /\ app.phase = "ready"
    /\ mapVisualizer' = clearVisualization(mapVisualizer)
    /\ UNCHANGED <<csvText, csvResult, files, cache, now, lastLoad, state,
                   searchTimeout, app>>
NextHighlight ==
    \/ \E routeId \in HighlightIds : HighlightRoute(routeId)
    \/ ClearHighlight
    \/ ClearVisualization
    \/ \E visualType \in VisualTypes : SwitchVisualization(visualType, "none")
    \/ \E value \in Thresholds : UpdateDelayFilter(value, "none")
SpecHighlight == InitStyle /\ [][NextHighlight]_vars

\* ---- loadRoutePerformance over files with signed numbers ----
\* route_performance.csv whose cells hold positive, zero and negative numbers
SignedRowTexts(k) ==
    {Join(<<RowId(k), a, c>>, Comma) :
        a \in {<<"8", ".", "5">>, <<"0">>, <<"-", "3">>},
        c \in {<<"5">>, <<"-", "2">>}}
SignedRouteFiles ==
    {Join(<<RouteHeader>> \o rows, LF) : rows \in RowSeqs(SignedRowTexts, MaxRows)}

\* ---- cleanRouteId over values of every type ----
RouteIdTexts == SeqsUpTo({" ", "\t", "5", "4"}, MaxLen) \cup {<<" ">> \o T.id504 \o <<" ">>}
RouteIdNumbers == {0, 7, 8500, 42 * Scale, 504 * Scale, -3 * Scale}
RouteIdValues ==
    {Str(s) : s \in RouteIdTexts}
    \cup {Num(n) : n \in RouteIdNumbers}
    \cup {Null, Undefined, NaN, Bool(TRUE), Bool(FALSE), Arr(<<>>),
          Arr(<<Num(42 * Scale)>>), Obj(<<>>)}

InitClean == InitLoader(ValidFiles)
\* the call cleanRouteId(routeId) that is observed
CleanRouteId(routeId) ==
    /\ lastLoad = NoLoad
    /\ lastLoad' = [op |-> "cleanRouteId", routeId |-> routeId,
                    completion |-> Value(cleanRouteId(routeId))]
    /\ UNCHANGED <<csvText, csvResult, files, cache, now, state, searchTimeout,
                   mapVisualizer, app>>
NextClean == \E routeId \in RouteIdValues : CleanRouteId(routeId)
SpecClean == InitClean /\ [][NextClean]_vars

\* ---- parseNumber over cells and other values ----
CellTexts ==
    SeqsUpTo({"1", "5", ".", "-", " ", "a"}, MaxLen - 1)
    \cup {<<"1", "2", ".", "5">>, <<"a", "b", "c">>}
CellValues ==
    {Str(s) : s \in CellTexts}
    \cup {Null, Undefined, NaN, Num(0), Num(12500), Num(-3 * Scale), Bool(TRUE),
          Arr(<<>>), Arr(<<Num(7 * Scale)>>), Obj(<<>>)}

\* the call parseNumber(value) that is observed
ParseNumber(value) ==
    /\ lastLoad = NoLoad
    /\ lastLoad' = [op |-> "parseNumber", value |-> value,
                    completion |-> Value(parseNumber(value))]
    /\ UNCHANGED <<csvText, csvResult, files, cache, now, state, searchTimeout,
                   mapVisualizer, app>>
NextNumber == \E value \in CellValues : ParseNumber(value)
SpecNumber == InitClean /\ [][NextNumber]_vars

\* ---- isValidCoordinate over values of every type ----
CoordinateInputs ==
    {Num(n * Scale) : n \in {-181, -180, -91, -90, 0, 90, 91, 180, 181}}
    \cup {Num(43653), Num(-79383), Null, Undefined, NaN, Str(<<>>),
          Str(<<"4", "5">>), Str(<<"x">>), Bool(TRUE), Arr(<<>>), Obj(<<>>)}

\* the call isValidCoordinate(lat, lng) that is observed
IsValidCoordinate(lat, lng) ==
    /\ lastLoad = NoLoad
    /\ lastLoad' = [op |-> "isValidCoordinate", lat |-> lat, lng |-> lng,
                    completion |-> Value(isValidCoordinate(lat, lng))]
    /\ UNCHANGED <<csvText, csvResult, files, cache, now, state, searchTimeout,
                   mapVisualizer, app>>
NextCoordinate ==
    \E lat \in CoordinateInputs, lng \in CoordinateInputs : IsValidCoordinate(lat, lng)
SpecCoordinate == InitClean /\ [][NextCoordinate]_vars

\* ---- the date range filter of the filter engine ----
\* a date is an instant counted from the start of day 0; endOfDay(date) is
\* the last instant of the calendar day of date
endOfDay(date) == (date \div DayLength) * DayLength + (DayLength - 1)

\* filterByDateRange that filters by start when end is absent
filterByDateRange_StartAlone(records, start, end) ==
    LET Undated(r) == r.date = Null
        FromStart(r) == Undated(r) \/ start.v <= r.date.v
        InRange(r) ==
            Undated(r) \/ (start.v <= r.date.v /\ r.date.v <= endOfDay(end.v))
    IN IF start = Null THEN records
       ELSE IF end = Null THEN FilterSeq(FromStart, records)
       ELSE FilterSeq(InRange, records)

\* filterByDateRange with end compared as it is given
filterByDateRange_EndNotWidened(records, start, end) ==
    LET InRange(r) ==
            r.date = Null \/ (start.v <= r.date.v /\ r.date.v <= end.v)
    IN IF start = Null \/ end = Null THEN records
       ELSE FilterSeq(InRange, records)

\* filterByDateRange(records, start, end); Null is an absent bound and the
\* date of a record without a parseable date
filterByDateRange(records, start, end) ==
    LET InRange(r) ==
            r.date = Null \/ (start.v <= r.date.v /\ r.date.v <= endOfDay(end.v))
    IN IF start = Null \/ end = Null THEN records
       ELSE FilterSeq(InRange, records)

Dates == {Null} \cup {Num(t) : t \in 0..MaxDate}
DatedRecords == {[date |-> d] : d \in Dates}

\* the call filterByDateRange(records, start, end) that is observed
FilterByDateRange(records, start, end) ==
    /\ lastLoad = NoLoad
    /\ lastLoad' = [op |-> "filterByDateRange", records |-> records,
                    start |-> start, end |-> end,
                    completion |-> Value(filterByDateRange(records, start, end))]
    /\ UNCHANGED <<csvText, csvResult, files, cache, now, state, searchTimeout,
                   mapVisualizer, app>>
NextDates ==
    \E records \in SeqsUpTo(DatedRecords, MaxCoords), start \in Dates, end \in Dates :
        FilterByDateRange(records, start, end)
SpecDates == InitClean /\ [][NextDates]_vars

InitSigned ==
    \E f \in SignedRouteFiles : InitLoader([ValidFiles EXCEPT ![F_routes] = f])
NextSigned == LoadRoutePerformance \/ Tick
SpecSigned == InitSigned /\ [][NextSigned]_vars

(***************************************************************************)
(* Claims about parseCSV (checked under SpecCSV)                           *)
(***************************************************************************)
IsInk(c) == c \notin WhiteSpace

\* the text between its first and its last non-blank character
InkPart(text) ==
    IF \A i \in DOMAIN text : ~IsInk(text[i]) THEN <<>>
    ELSE LET first == CHOOSE i \in DOMAIN text :
                          IsInk(text[i]) /\ \A j \in 1..(i - 1) : ~IsInk(text[j])
             last == CHOOSE i \in DOMAIN text :
                          IsInk(text[i]) /\ \A j \in (i + 1)..Len(text) : ~IsInk(text[j])
         IN SubSeq(text, first, last)

Count(s, c) == Cardinality({i \in DOMAIN s : s[i] = c})

\* lines of a text as a reader counts them: a final line feed ends the last
\* line, it does not open another one
RawLineCount(text) ==
    Count(text, LF) + (IF text # <<>> /\ text[Len(text)] # LF THEN 1 ELSE 0)

InkLines(text) == split(InkPart(text), LF)
HeaderCells(text) == split(InkLines(text)[1], Comma)
HeaderNames(text) == MapSeq(trim, HeaderCells(text))
DistinctNames(names) ==
    \A i, j \in DOMAIN names : names[i] = names[j] => i = j

CsvDone == csvResult.kind = "value"
CsvRows == csvResult.value

\* what C7 asks of the records of a text with a header and data lines
RecordsMatchHeader(text, rows) ==
    /\ Len(rows) = Len(InkLines(text)) - 1
    /\ \A k \in DOMAIN rows :
          /\ Cardinality(DOMAIN rows[k]) = Len(HeaderCells(text))
          /\ \A c \in DOMAIN HeaderNames(text) :
                c > Len(split(InkLines(text)[k + 1], Comma))
                    => rows[k][HeaderNames(text)[c]] = <<>>

\* C7 as stated: every text of at least 2 lines gives one record per data
\* line, each with as many keys as the header row has columns, short rows
\* filled with the empty string
C7_AsStated ==
    (CsvDone /\ Len(InkLines(csvText)) >= 2)
        => RecordsMatchHeader(csvText, CsvRows)

\* C7 amended: the same, for texts whose header names are pairwise
\* distinct after trimming (lines counted after the text is trimmed)
C7_KeysMatchDistinctHeader ==
    (CsvDone /\ Len(InkLines(csvText)) >= 2
             /\ DistinctNames(HeaderNames(csvText)))
        => RecordsMatchHeader(csvText, CsvRows)

\* a two-column header with distinct names and a data row of one cell
C7_Witness ==
    /\ CsvDone
    /\ Len(InkLines(csvText)) >= 2
    /\ DistinctNames(HeaderNames(csvText))
    /\ Len(HeaderCells(csvText)) = 2
    /\ \E k \in DOMAIN CsvRows :
          /\ Len(split(InkLines(csvText)[k + 1], Comma)) = 1
          /\ CsvRows[k][HeaderNames(csvText)[2]] = <<>>
          /\ CsvRows[k][HeaderNames(csvText)[1]] # <<>>

\* C8: a text of fewer than 2 lines (empty, blank, header only) parses to
\* the empty sequence, and the call completes normally
C8_ShortTextGivesEmpty ==
    (csvResult # Pending
        /\ (RawLineCount(csvText) < 2 \/ InkPart(csvText) = <<>>))
        => (CsvDone /\ CsvRows = <<>>)

\* a header line that ends in a line feed, and a blank text of two lines
C8_Witness ==
    /\ CsvDone
    /\ CsvRows = <<>>
    /\ RawLineCount(csvText) = 1
    /\ csvText[Len(csvText)] = LF
    /\ Count(csvText, Comma) = 1

(***************************************************************************)
(* Claims about the load operations                                        *)
(***************************************************************************)
Loaded(op) == lastLoad.op = op
Returned == lastLoad.completion.value

\* the call worked on the body of the file: the answer was OK, or the rows
\* came from the cache (which only ever holds a parse of the file)
GotFile == Loaded("none") = FALSE /\ (lastLoad.net = "ok" \/ ~lastLoad.fetched)
FetchFailed == Loaded("none") = FALSE /\ lastLoad.fetched /\ lastLoad.net # "ok"

\* the data rows of a generated CSV file, cell by cell
FileRows(name) ==
    IF files[name] = <<>> THEN <<>>
    ELSE [k \in DOMAIN Tail(split(files[name], LF)) |->
            split(Tail(split(files[name], LF))[k], Comma)]

\* ---- route performance (SpecRoutes) ----
RouteRows == FileRows(F_routes)
RowGood(cells) == cells[1] # <<>> /\ cells[2] = <<"8", ".", "5">> /\ cells[3] = <<"5">>
RowLacksAvg(cells) == cells[2] = <<>>

\* C1: every record loadRoutePerformance returns has a non-empty Route, a
\* non-null Avg_Delay_Min and a non-null Delay_Count
C1_ReturnedRoutesValid ==
    Loaded("loadRoutePerformance") =>
        /\ lastLoad.completion.kind = "value"
        /\ \A i \in DOMAIN Returned :
              /\ Returned[i].Route # <<>>
              /\ Returned[i].Avg_Delay_Min.t = "num"
              /\ Returned[i].Delay_Count.t = "num"

\* a file with a valid and an invalid row was loaded, and one record came back
C1_Witness ==
    /\ Loaded("loadRoutePerformance")
    /\ GotFile
    /\ Len(RouteRows) = 2
    /\ RowGood(RouteRows[2])
    /\ RouteRows[1][3] = <<>>
    /\ Len(Returned) = 1
    /\ Returned[1].Route = RowId(2)

\* the file has n rows, exactly one of them lacks Avg_Delay_Min and the
\* others are valid; the records returned are the others, in order
OneRowLacksAvg ==
    /\ Loaded("loadRoutePerformance")
    /\ GotFile
    /\ \E k \in DOMAIN RouteRows :
          /\ RowLacksAvg(RouteRows[k])
          /\ \A j \in DOMAIN RouteRows : j # k => RowGood(RouteRows[j])
OthersReturned ==
    LET k == CHOOSE k \in DOMAIN RouteRows : RowLacksAvg(RouteRows[k])
        others == FilterSeq(LAMBDA cells : ~RowLacksAvg(cells), RouteRows)
    IN /\ Len(Returned) = Len(RouteRows) - 1
       /\ \A i \in DOMAIN Returned :
             /\ Returned[i].Route = others[i][1]
             /\ Returned[i].Avg_Delay_Min = Num(8500)

\* C2 as stated: for every n >= 1
C2_AsStated == (OneRowLacksAvg /\ Len(RouteRows) >= 1) => OthersReturned

\* C2 amended: for every n >= 2 the collection returned has the n-1 other
\* rows; for n = 1 no row is left and the sample routes are returned
C2_OtherRowsReturned ==
    /\ (OneRowLacksAvg /\ Len(RouteRows) >= 2) => OthersReturned
    /\ (OneRowLacksAvg /\ Len(RouteRows) = 1) => Returned = getSampleRoutePerformance

C2_Witness ==
    /\ OneRowLacksAvg
    /\ Len(RouteRows) = 2
    /\ RowLacksAvg(RouteRows[1])
    /\ Len(Returned) = 1
    /\ Returned[1].Route = RowId(2)

\* ---- the four load operations (SpecLoad) ----
\* C3: a load operation always completes with a value, never with an error
C3_LoadsReturnValue ==
    ~Loaded("none") => lastLoad.completion.kind = "value"

\* the statistics file decodes to null and the fetch succeeded
C3_Witness ==
    /\ Loaded("loadSummaryStatistics")
    /\ lastLoad.fetched /\ lastLoad.net = "ok"
    /\ files[F_statistics] = Null
    /\ lastLoad.completion.kind = "value"

\* a body that does not decode in its format, or not to the declared shape
\* (any text is a CSV text; a peak_hours cell that is no JSON is malformed)
MalformedPayload ==
    /\ GotFile
    /\ CASE Loaded("loadRoutePerformance") -> FALSE
         [] Loaded("loadRouteGeometries") -> files[F_geometries] \in {Malformed, Null}
         [] Loaded("loadLocationAnalysis") -> files[F_locations] = BadPeakLocationFile
         [] Loaded("loadSummaryStatistics") -> files[F_statistics] \in {Malformed, Null}

\* a body that decodes and yields no usable record
ZeroUsable ==
    /\ GotFile
    /\ CASE Loaded("loadRoutePerformance") ->
                files[F_routes] \in {EmptyText, RouteHeader, AllInvalidRouteFile, <<"x">>}
         [] Loaded("loadRouteGeometries") ->
                files[F_geometries] \in {Obj(<<>>), AllInvalidGeometryFile}
         [] Loaded("loadLocationAnalysis") ->
                files[F_locations] \in {EmptyText, LocationHeader, AllInvalidLocationFile}
         [] Loaded("loadSummaryStatistics") -> files[F_statistics] = Obj(<<>>)

\* the documented fallback was returned (the time stamp of the default
\* statistics is the time of the call)
ReturnedFallback ==
    CASE Loaded("loadRoutePerformance") -> Returned = getSampleRoutePerformance
      [] Loaded("loadRouteGeometries") ->
            \E seed \in RandomSeeds : Returned = SampleRouteGeometries[seed]
      [] Loaded("loadLocationAnalysis") -> Returned = <<>>
      [] Loaded("loadSummaryStatistics") ->
            /\ Returned.updated_at.t = "date"
            /\ [Returned EXCEPT !.updated_at = DateNow] = getDefaultStatistics

\* statistics built from an object without any of the fields
ZeroStatistics ==
    [total_delays |-> Num(0), avg_delay_min |-> Num(0), total_routes |-> Num(0),
     coverage_percentage |-> Num(0), data_points |-> Num(0),
     time_period |-> Str(T.Last30Days), updated_at |-> DateNow,
     peak_delay_hour |-> Str(T.EightOClock), most_delayed_route |-> Str(T.Unknown)]

LocationRows == FileRows(F_locations)
RowLocated(cells) ==
    cells[2] = <<"4", "3", ".", "6">> /\ cells[3] = <<"-", "7", "9", ".", "3">>
PeakWellFormed(cells) == cells[4] \in {<<>>, <<"[", "7", "]">>}

\* C5: a row that fails validation is excluded on its own; every row with
\* valid coordinates and a well-formed peak_hours cell is in the collection
C5_AsStated ==
    (Loaded("loadLocationAnalysis") /\ GotFile) =>
        \A k \in DOMAIN LocationRows :
            (RowLocated(LocationRows[k]) /\ PeakWellFormed(LocationRows[k]))
                => \E i \in DOMAIN Returned :
                      Returned[i].location_id = Str(LocationRows[k][1])

\* ---- route geometries (SpecGeometries) ----
InRange(v, low, high) ==
    LET n == ToNumber(v) IN n.t = "num" /\ low * Scale <= n.v /\ n.v <= high * Scale

SameLetter(a, b) ==
    \/ a = b
    \/ \E i \in DOMAIN UpperCase : {a, b} = {UpperCase[i], LowerCase[i]}

\* q occurs in s, letters compared without regard to case
ContainsIgnoringCase(s, q) ==
    \E i \in 0..(Len(s) - Len(q)) :
        \A j \in DOMAIN q : SameLetter(s[i + j], q[j])

\* the route is one the filter has to return in the present state
Selected(route) ==
    /\ route.Avg_Delay_Min.v >= state.filters.delayThreshold.v
    /\ \/ state.searchQuery = <<>>
       \/ ContainsIgnoringCase(route.Route, state.searchQuery)
       \/ ContainsIgnoringCase(route.route_long_name, state.searchQuery)

Occurrences(s, x) == Cardinality({i \in DOMAIN s : s[i] = x})

\* state.filteredRoutes is the result of filterRoutes on the present
\* state: every change of the query starts the timer, and the filter ran
\* when it expired
FilterRan == searchTimeout = NoTimer

\* C9: filterRoutes returns exactly the routes of state.routes with
\* Avg_Delay_Min >= the threshold and, for a non-empty query, the query in
\* the route id or the route name without regard to case
C9_FilterReturnsSelected ==
    FilterRan =>
        \A route \in Range(state.routes) \cup Range(state.filteredRoutes) :
            Occurrences(state.filteredRoutes, route) =
                IF Selected(route) THEN Occurrences(state.routes, route) ELSE 0

\* a query in another case than the name it is found in, a route kept by
\* its id, and routes dropped by the query and by the threshold
C9_Witness ==
    /\ FilterRan
    /\ state.searchQuery = <<"B">>
    /\ state.filters.delayThreshold = Num(10 * Scale)
    /\ Len(state.routes) = 3
    /\ Cardinality(Range(state.routes)) = 3
    /\ Len(state.filteredRoutes) = 2
    /\ \E i \in DOMAIN state.filteredRoutes :
          state.filteredRoutes[i].route_long_name = <<"B", "a">>
    /\ \E i \in DOMAIN state.filteredRoutes :
          state.filteredRoutes[i].Route = <<"2", "B">>

RECURSIVE IsSubsequence(_, _)
IsSubsequence(a, b) ==
    IF a = <<>> THEN TRUE
    ELSE IF b = <<>> THEN FALSE
    ELSE IF Head(a) = Head(b) THEN IsSubsequence(Tail(a), Tail(b))
    ELSE IsSubsequence(a, Tail(b))

\* C10: the result of filterRoutes is a subsequence of state.routes: the
\* routes it keeps are in the order they have in state.routes
C10_FilterKeepsOrder == IsSubsequence(state.filteredRoutes, state.routes)

\* the first and the last of three different routes were kept
C10_Witness ==
    /\ FilterRan
    /\ Len(state.routes) = 3
    /\ Len(state.filteredRoutes) = 2
    /\ state.filteredRoutes[1] = state.routes[1]
    /\ state.filteredRoutes[2] = state.routes[3]
    /\ state.routes[1] # state.routes[3]
    /\ state.routes[2] \notin Range(state.filteredRoutes)

(***************************************************************************)
(* The application after loadData                                          *)
(***************************************************************************)
\* loadData has stored the four results in state
RoutesLoaded == app.phase \in {"loaded", "ready"}

\* C11: once loadData has set state.routes, no later step of the application
\* changes the contents or the order of state.routes
C11_AsStated == [][RoutesLoaded => state'.routes = state.routes]_vars

(***************************************************************************)
(* The result cache                                                        *)
(***************************************************************************)
\* the step is a call of fetchCSV or fetchJSON with the cache key key
Fetches(key) == now' = now /\ files' = files /\ lastLoad'.op = key

\* the entry of key is there and younger than five minutes
Fresh(key) == cache[key].present /\ now < cache[key].timestamp + 5 * 60 * 1000

\* the entry of key is there and five minutes old or older
Stale(key) == cache[key].present /\ now >= cache[key].timestamp + 5 * 60 * 1000

\* what the server holds for key, parsed
Parsed(key) == IF key[1] = "csv" THEN parseCSV(files[key[2]]) ELSE files[key[2]]

\* the call returns the cached value and makes no request
ServedFromCache(key) ==
    /\ ~lastLoad'.fetched
    /\ lastLoad'.completion = Value(cache[key].data)
    /\ cache' = cache

\* the call makes a request and stores what it got with the time of the call
Refetched(key) ==
    /\ lastLoad'.fetched
    /\ lastLoad'.completion = Value(Parsed(key))
    /\ cache' = [cache EXCEPT ![key] = Entry(Parsed(key), now)]

\* C12 as stated: a call at or after t + 5 minutes issues a request and
\* replaces the entry and its timestamp
C12_AsStated ==
    [][\A key \in CacheKeys :
          Fetches(key) => /\ Fresh(key) => ServedFromCache(key)
                          /\ Stale(key) => Refetched(key)]_vars

\* C12: a call made less than five minutes after the fetch that filled the
\* entry returns the cached value without a request; a call made five minutes
\* after it or later issues a request, and replaces the entry and its
\* timestamp when that request succeeds; when it fails the call throws and
\* the old entry stays
C12_FreshServedStaleRefetched ==
    [][\A key \in CacheKeys :
          Fetches(key) =>
              /\ Fresh(key) => ServedFromCache(key)
              /\ Stale(key) =>
                    /\ lastLoad'.fetched
                    /\ lastLoad'.completion.kind = "value" => Refetched(key)
                    /\ lastLoad'.completion.kind = "throw" => cache' = cache]_vars

\* a call found an entry exactly five minutes old and issued a request, which
\* failed
C12_Witness ==
    \E key \in CacheKeys :
        /\ lastLoad # NoLoad
        /\ lastLoad.op = key
        /\ lastLoad.fetched
        /\ lastLoad.completion = Throw
        /\ cache[key].present
        /\ now = cache[key].timestamp + 5 * 60 * 1000

(***************************************************************************)
(* The debounce of the search box                                          *)
(***************************************************************************)
\* C13: the triggers of one debounce interval cause one recomputation of
\* filteredRoutes and one re-render, that of the timer: while the timer stays
\* pending, no trigger changes filteredRoutes or what the map shows
C13_AsStated ==
    [][(searchTimeout = PendingTimer /\ searchTimeout' = PendingTimer)
          => /\ state'.filteredRoutes = state.filteredRoutes
             /\ mapVisualizer' = mapVisualizer]_vars

(***************************************************************************)
(* loadData and its four loads                                             *)
(***************************************************************************)
\* what state holds for each of the four loads
Stored ==
    [loadRoutePerformance |-> state.routes,
     loadRouteGeometries |-> state.routeGeometries,
     loadLocationAnalysis |-> state.locationAnalysis,
     loadSummaryStatistics |-> state.summaryStats]

\* the four fields before loadData assigns them
Unassigned ==
    [loadRoutePerformance |-> <<>>, loadRouteGeometries |-> EmptyMap,
     loadLocationAnalysis |-> <<>>, loadSummaryStatistics |-> EmptyMap]

\* the values a load falls back to
Fallbacks ==
    [loadRoutePerformance |-> {getSampleRoutePerformance},
     loadRouteGeometries |-> {getSampleRouteGeometries(seed) : seed \in RandomSeeds},
     loadLocationAnalysis |-> {<<>>},
     loadSummaryStatistics |-> {getDefaultStatistics}]

\* the records made from what the server holds
RealData ==
    [loadRoutePerformance |-> processRoutePerformance(parseCSV(files[F_routes])),
     loadRouteGeometries |-> processGeometries(files[F_geometries].e, EmptyMap),
     loadLocationAnalysis |-> processLocationAnalysis(parseCSV(files[F_locations])).value,
     loadSummaryStatistics |-> statsOf(files[F_statistics])]

\* C14: loadData never fails, whichever of the four fetches fail; it assigns
\* state only when all four loads have settled, and then state holds the
\* real data of every load whose fetch succeeded and the fallback of every
\* load whose fetch failed, and filteredRoutes is computed from these routes
C14_LoadDataStoresRealOrFallback ==
    /\ app.phase # "failed"
    /\ app.phase \in {"constructed", "loading"} =>
          /\ Stored = Unassigned
          /\ state.filteredRoutes = <<>>
    /\ app.phase = "loaded" =>
          /\ \A loader \in Loaders :
                /\ lastLoad.settled[loader] # Pending
                /\ lastLoad.net[loader] = "ok" => Stored[loader] = RealData[loader]
                /\ lastLoad.net[loader] # "ok" => Stored[loader] \in Fallbacks[loader]
          /\ state.filteredRoutes = filterRoutes(state)

\* loadData has completed although the fetches of the routes and of the
\* statistics failed and the two others succeeded
C14_Witness ==
    /\ app.phase = "loaded"
    /\ lastLoad.net["loadRoutePerformance"] = "network_error"
    /\ lastLoad.net["loadSummaryStatistics"] = "not_ok"
    /\ lastLoad.net["loadRouteGeometries"] = "ok"
    /\ lastLoad.net["loadLocationAnalysis"] = "ok"
    /\ state.routes = getSampleRoutePerformance
    /\ DOMAIN state.routeGeometries = {T.id501, T.id504}
    /\ state.filteredRoutes # <<>>

(***************************************************************************)
(* switchVisualization                                                     *)
(***************************************************************************)
\* the step calls switchVisualization: it is a step of the running
\* application that takes no notification away
CallsSwitchVisualization ==
    /\ RoutesLoaded
    /\ app.notifications \subseteq app'.notifications

\* C15: every call of switchVisualization ends with the loading overlay
\* removed and returns normally; when a step of it has thrown, an error
\* notification is on the page
C15_SwitchEndsWithoutOverlay ==
    [][CallsSwitchVisualization =>
          /\ lastLoad'.op = "switchVisualization"
          /\ ~app'.loadingOverlay
          /\ lastLoad'.completion.kind = "value"
          /\ lastLoad'.threw =>
                \E n \in app'.notifications : n.type = "error"]_vars

\* a call has thrown after the overlay was shown and the lines were drawn:
\* the overlay is gone and the error is on the page
C15_Witness ==
    /\ lastLoad.op = "switchVisualization"
    /\ lastLoad.threw
    /\ lastLoad.visualType = "frequency"
    /\ mapVisualizer.activeLayers # <<>>
    /\ mapVisualizer.legend = "null"
    /\ ~app.loadingOverlay
    /\ [type |-> "error", failed |-> "switchVisualization"] \in app.notifications

(***************************************************************************)
(* The colour scales (checked under SpecStyle)                             *)
(***************************************************************************)
AskedColor == lastLoad.op = "colorScale"
\* the breakpoints and the colours of the scale that was asked, and the
\* value in the unit of the breakpoints
AskedBreaks == mapVisualizer.colorScales[lastLoad.name]
AskedColors == IF lastLoad.name = "delay" THEN config.routeDelay.colors
               ELSE config.frequency.colors
AskedValue == 10 * lastLoad.value
AtOrBelowFirst == AskedValue <= AskedBreaks[1]
AtOrAboveLast == AskedValue >= AskedBreaks[Len(AskedBreaks)]

\* C16 as the specification states it: a value at or below the first
\* breakpoint gets colors[0], a value at or above the last breakpoint gets
\* the last colour
C16_AsStated ==
    AskedColor =>
        /\ AtOrBelowFirst => lastLoad.color = AskedColors[1]
        /\ AtOrAboveLast => lastLoad.color = AskedColors[Len(AskedColors)]

\* C16: a value at or below the first breakpoint gets colors[0]; a value
\* above the first breakpoint and at or above the last one gets the last
\* colour
C16_FirstThenLastBreakpoint ==
    AskedColor =>
        /\ AtOrBelowFirst => lastLoad.color = AskedColors[1]
        /\ (~AtOrBelowFirst /\ AtOrAboveLast)
              => lastLoad.color = AskedColors[Len(AskedColors)]

\* the four breakpoints are 0 (the largest value of the routes is 0) and
\* the scale was asked for the value 0: the first colour
C16_Witness ==
    /\ AskedColor
    /\ AtOrBelowFirst
    /\ AtOrAboveLast
    /\ lastLoad.color = AskedColors[1]
    /\ lastLoad.color # AskedColors[Len(AskedColors)]

\* the delay scale of the six sample routes was asked
AskedSampleDelayScale ==
    /\ AskedColor
    /\ lastLoad.name = "delay"
    /\ mapVisualizer.routes = getSampleRoutePerformance

FrequencyShown ==
    /\ mapVisualizer.currentVisualization = "frequency"
    /\ lastLoad # NoLoad
    /\ lastLoad.op = "switchVisualization"
ShownCounts ==
    [i \in DOMAIN state.filteredRoutes |-> state.filteredRoutes[i].Delay_Count.v]
\* the Delay_Count of the route a line was drawn for
CountOf(key) ==
    LET route == CHOOSE r \in Range(state.filteredRoutes) : r.Route = key
    IN route.Delay_Count.v
\* the weight is a number between minWeight and maxWeight
WithinWeights(weight) ==
    /\ weight.t = "num"
    /\ weight.v >= config.frequency.minWeight
    /\ weight.v <= config.frequency.maxWeight
\* minWeight at the smallest count and maxWeight at the largest, where the
\* two differ
EndsOfWeights(weight, count) ==
    MathMin(ShownCounts) < MathMax(ShownCounts) =>
        /\ count = MathMin(ShownCounts) => weight = Num(config.frequency.minWeight)
        /\ count = MathMax(ShownCounts) => weight = Num(config.frequency.maxWeight)

\* C18 as the specification states it: every line of the frequency view
\* has a weight that is a number in [minWeight, maxWeight], minWeight at
\* the smallest count and maxWeight at the largest
C18_AsStated ==
    FrequencyShown =>
        \A i \in DOMAIN mapVisualizer.activeLayers :
            /\ WithinWeights(mapVisualizer.activeLayers[i].layer.weight)
            /\ EndsOfWeights(mapVisualizer.activeLayers[i].layer.weight,
                             CountOf(mapVisualizer.activeLayers[i].key))

(***************************************************************************)
(* The sign of the numbers of a route (checked under SpecSigned)           *)
(***************************************************************************)
ReturnedRoutes ==
    IF lastLoad # NoLoad /\ lastLoad.completion.kind = "value"
    THEN lastLoad.completion.value
    ELSE <<>>

\* C19 as the specification states it: every record loadRoutePerformance
\* returns has Avg_Delay_Min >= 0 and Delay_Count >= 0
C19_AsStated ==
    \A i \in DOMAIN ReturnedRoutes :
        /\ ReturnedRoutes[i].Avg_Delay_Min.v >= 0
        /\ ReturnedRoutes[i].Delay_Count.v >= 0

(***************************************************************************)
(* cleanRouteId (checked under SpecClean)                                  *)
(***************************************************************************)
Cleaned == lastLoad # NoLoad /\ lastLoad.op = "cleanRouteId"
CleanedText == lastLoad.completion.value
\* a decimal text: digits with at most one sign in front and one point,
\* which reads back as the number n
IsDecimalOf(text, n) ==
    /\ \A i \in DOMAIN text : IsDigit(text[i]) \/ text[i] \in {"-", "."}
    /\ StringToNumber(text) = Num(n)

ParsedNumber == lastLoad # NoLoad /\ lastLoad.op = "parseNumber"
\* the text starts, after white space and an optional sign, with a digit or
\* with a point and a digit: parseFloat reads a number from it
StartsNumber(text) ==
    LET Unsigned(u) ==
            \/ (u # <<>> /\ IsDigit(u[1]))
            \/ (Len(u) >= 2 /\ u[1] = "." /\ IsDigit(u[2]))
        Signed(u) ==
            Unsigned(IF u # <<>> /\ u[1] \in {"-", "+"} THEN Tail(u) ELSE u)
    IN Signed(TrimLeft(text))
\* the text is nothing but one decimal literal
IsLiteral(text) ==
    /\ text # <<>>
    /\ IsDigit(text[1])
    /\ IsDigit(text[Len(text)])
    /\ \A i \in DOMAIN text : IsDigit(text[i]) \/ text[i] = "."
    /\ Cardinality({i \in DOMAIN text : text[i] = "."}) <= 1

Validated == lastLoad # NoLoad /\ lastLoad.op = "isValidCoordinate"
\* a number between low and high
NumberWithin(v, low, high) ==
    v.t = "num" /\ low * Scale <= v.v /\ v.v <= high * Scale

\* C22 as the specification states it: isValidCoordinate(lat, lng) is true
\* exactly when both values are numbers with -90 <= lat <= 90 and
\* -180 <= lng <= 180
C22_AsStated ==
    Validated =>
        (lastLoad.completion.value
            <=> /\ NumberWithin(lastLoad.lat, -90, 90)
                /\ NumberWithin(lastLoad.lng, -180, 180))

(***************************************************************************)
(* The default statistics (checked under SpecLoad)                         *)
(***************************************************************************)
LoadedStatistics == lastLoad # NoLoad /\ lastLoad.op = "loadSummaryStatistics"
\* the summary could not be fetched, or its body does not decode to an
\* object
Unreadable ==
    \/ FetchFailed
    \/ GotFile /\ files[F_statistics] \in {Malformed, Null}
\* the body decodes to an object or an array without any of the fields
NoFields == GotFile /\ files[F_statistics] \in {Obj(<<>>), Arr(<<>>)}
DefaultValues(stats) ==
    /\ stats.total_delays = Num(12478 * Scale)
    /\ stats.total_routes = Num(156 * Scale)
    /\ stats.coverage_percentage = Num(87500)
    /\ stats.peak_delay_hour = Str(<<"0", "8", ":", "0", "0">>)

FilteredByDate == lastLoad # NoLoad /\ lastLoad.op = "filterByDateRange"
BothBounds == lastLoad.start # Null /\ lastLoad.end # Null
\* the instants of the calendar day of an instant
SameDay(t, u) == t \div DayLength = u \div DayLength
LastInstantOfDay(t) ==
    CHOOSE u \in 0..(MaxDate + DayLength) :
        SameDay(t, u) /\ \A v \in 0..(MaxDate + DayLength) : SameDay(t, v) => v <= u
\* the record is to be kept: it has no date, or its date is in the range
ToKeep(r) ==
    \/ r.date = Null
    \/ /\ lastLoad.start.v <= r.date.v
       /\ r.date.v <= LastInstantOfDay(lastLoad.end.v)

\* C24: when start or end is absent filterByDateRange returns the records
\* unchanged, in the same order
C24_AbsentBoundKeepsAll ==
    (FilteredByDate /\ ~BothBounds) => lastLoad.completion.value = lastLoad.records

\* the end is absent, a record lies before start, and it was returned
C24_Witness ==
    /\ FilteredByDate
    /\ lastLoad.start = Num(DayLength)
    /\ lastLoad.end = Null
    /\ Len(lastLoad.records) = 2
    /\ lastLoad.records[1].date = Num(0)
    /\ lastLoad.completion.value = lastLoad.records

\* C25: with both bounds present the result holds, in their order, exactly
\* the records without a date and the records whose date lies between
\* start and the last instant of the day of end, both included
C25_KeepsUndatedAndInRange ==
    (FilteredByDate /\ BothBounds) =>
        /\ IsSubsequence(lastLoad.completion.value, lastLoad.records)
        /\ \A i \in DOMAIN lastLoad.completion.value :
              ToKeep(lastLoad.completion.value[i])
        /\ Len(lastLoad.completion.value)
              = Cardinality({i \in DOMAIN lastLoad.records : ToKeep(lastLoad.records[i])})

\* end is the first instant of day 0: the record of the last instant of
\* that day and the record without a date were kept
C25_Witness ==
    /\ FilteredByDate
    /\ lastLoad.start = Num(0)
    /\ lastLoad.end = Num(0)
    /\ lastLoad.records = <<[date |-> Num(DayLength - 1)], [date |-> Null]>>
    /\ lastLoad.completion.value = lastLoad.records

(***************************************************************************)
(* The map after the events of the controls (checked under SpecSearch)     *)
(***************************************************************************)
\* the routes that have a line on the map, and the routes of
\* state.filteredRoutes that have a geometry to draw
RoutesOnMap ==
    {mapVisualizer.activeLayers[i].layer.route : i \in DOMAIN mapVisualizer.activeLayers}
    \cup {mapVisualizer.untracked[i].route : i \in DOMAIN mapVisualizer.untracked}
RoutesToDraw ==
    {state.filteredRoutes[i].Route : i \in DOMAIN state.filteredRoutes}
    \cap {id \in DOMAIN state.routeGeometries : state.routeGeometries[id] # <<>>}

\* C26 as the specification states it: when no debounce timer is pending
\* the lines on the map are those of the routes of state.filteredRoutes
\* (stated for a state.filteredRoutes that is not empty)
C26_AsStated ==
    (searchTimeout = NoTimer /\ state.filteredRoutes # <<>>)
        => RoutesOnMap = RoutesToDraw

(***************************************************************************)
(* The lines of the delay view (checked under SpecStyle)                   *)
(***************************************************************************)
FilteredIds == {state.filteredRoutes[i].Route : i \in DOMAIN state.filteredRoutes}

\* C27 as the specification states it: in the delay view every line on the
\* map belongs to a route of filteredRoutes, and there is no line when
\* filteredRoutes is empty
C27_AsStated ==
    (lastLoad # NoLoad /\ lastLoad.op = "switchVisualization"
        /\ mapVisualizer.currentVisualization = "delay") =>
        /\ \A i \in DOMAIN mapVisualizer.activeLayers :
              mapVisualizer.activeLayers[i].layer.route \in FilteredIds
        /\ state.filteredRoutes = <<>> => mapVisualizer.activeLayers = <<>>

(***************************************************************************)
(* The lines on the map and activeLayers (checked under SpecLayers)        *)
(***************************************************************************)
\* C28 as the specification states it: after a view was drawn every line
\* on the map has its entry in activeLayers, so that clearVisualization
\* removes them all
C28_AsStated ==
    (lastLoad # NoLoad /\ lastLoad.op = "switchVisualization")
        => mapVisualizer.untracked = <<>>

(***************************************************************************)
(* C29: the highlight                                                      *)
(***************************************************************************)
\* the entries of activeLayers whose line carries the highlight colour
Highlighted ==
    {i \in DOMAIN mapVisualizer.activeLayers :
        mapVisualizer.activeLayers[i].layer.color = HighlightColor}
\* the entry that highlightedRoute refers to
HighlightedEntry ==
    {i \in DOMAIN mapVisualizer.activeLayers :
        /\ mapVisualizer.highlightedRoute # Null
        /\ mapVisualizer.activeLayers[i].key = mapVisualizer.highlightedRoute.key}
\* the lines as the current view draws them from the current routes
FreshLayers ==
    switchVisualization(state, mapVisualizer, app, app.currentVisualization,
                        "none").mapVisualizer.activeLayers
FreshStyle(key) ==
    styleOf(FreshLayers[CHOOSE i \in DOMAIN FreshLayers :
                            FreshLayers[i].key = key].layer)
HighlightOf(style) ==
    [color |-> HighlightColor, weight |-> weightPlusTwo(style.weight),
     opacity |-> Num(Scale)]

\* C29: at most one line carries the highlight style; highlightedRoute is null
\* or refers to a line in activeLayers, which is the one that carries the
\* highlight style over the style it was drawn with; every other line has
\* the colour, weight and opacity it was drawn with
C29_HighlightInvariants ==
    /\ Cardinality(Highlighted) <= 1
    /\ Highlighted = HighlightedEntry
    /\ mapVisualizer.highlightedRoute # Null => Cardinality(HighlightedEntry) = 1
    /\ \A i \in DOMAIN mapVisualizer.activeLayers :
          /\ \E j \in DOMAIN FreshLayers :
                FreshLayers[j].key = mapVisualizer.activeLayers[i].key
          /\ i \notin HighlightedEntry =>
                styleOf(mapVisualizer.activeLayers[i].layer)
                    = FreshStyle(mapVisualizer.activeLayers[i].key)
          /\ i \in HighlightedEntry =>
                /\ mapVisualizer.highlightedRoute.originalStyle
                       = FreshStyle(mapVisualizer.activeLayers[i].key)
                /\ styleOf(mapVisualizer.activeLayers[i].layer)
                       = HighlightOf(mapVisualizer.highlightedRoute.originalStyle)
\* two lines are on the map, the second is highlighted and the first, which
\* has its drawn style, is not
C29_Witness ==
    /\ Len(mapVisualizer.activeLayers) = 2
    /\ mapVisualizer.highlightedRoute # Null
    /\ mapVisualizer.highlightedRoute.routeId = T.id504
    /\ HighlightedEntry = {2}
    /\ styleOf(mapVisualizer.activeLayers[1].layer)
           = FreshStyle(mapVisualizer.activeLayers[1].key)
    /\ mapVisualizer.activeLayers[1].layer.color # HighlightColor

(***************************************************************************)
(* C30: the cache and failed fetches                                       *)
(***************************************************************************)
\* the cache key of the file a load operation fetches
KeyOf(op) ==
    CASE op = "loadRoutePerformance" -> <<"csv", F_routes>>
      [] op = "loadRouteGeometries" -> <<"json", F_geometries>>
      [] op = "loadLocationAnalysis" -> <<"csv", F_locations>>
      [] op = "loadSummaryStatistics" -> <<"json", F_statistics>>
\* the request for key fails, is answered with a status that is not OK, or
\* is answered with a body that does not decode
Undelivered(key, net) ==
    net # "ok" \/ (key[1] = "json" /\ files[key[2]] = Malformed)
\* the step is a call of the load operation op
Loads(op) == now' = now /\ lastLoad'.op = op

\* C30: a load makes a request exactly when the cache holds no entry younger
\* than five minutes for its file; when the request fails the cache stays as
\* it was, the load returns its fallback and not the expired entry, and the
\* entry, if any, is still not valid, so that the next load makes a request
\* again; every entry of the cache holds what the server sent, never a
\* fallback
C30_FailedFetchLeavesCache ==
    [][\A op \in Loaders :
          Loads(op) =>
              /\ lastLoad'.fetched = ~isCacheValid(KeyOf(op))
              /\ (lastLoad'.fetched /\ Undelivered(KeyOf(op), lastLoad'.net)) =>
                    /\ cache' = cache
                    /\ ReturnedFallback'
                    /\ ~isCacheValid(KeyOf(op))'
              /\ \A key \in CacheKeys :
                    cache'[key].present => cache'[key].data = Parsed(key)]_vars

\* a load found an entry five minutes old, made a request, which failed, and
\* returned the sample routes while the entry is still in the cache
C30_Witness ==
    /\ Loaded("loadRoutePerformance")
    /\ lastLoad.fetched
    /\ lastLoad.net = "network_error"
    /\ cache[<<"csv", F_routes>>].present
    /\ files = ValidFiles
    /\ cache[<<"csv", F_routes>>].data = parseCSV(ValidRouteFile)
    /\ now = cache[<<"csv", F_routes>>].timestamp + cacheTimeout
    /\ Returned = getSampleRoutePerformance

====
